---------------------------- MODULE Spec2Model ----------------------------
(***************************************************************************)
(* Model of the BESS sizing engine (src/bess_calculator.py) and of the     *)
(* economic evaluation engine (src/economic_calculator.py).                *)
(*                                                                         *)
(* Numbers.  The source computes in floating point; the model computes in  *)
(* exact integer arithmetic on inputs chosen so that every division of the *)
(* source is exact:                                                        *)
(*   - monthly energies are whole kWh; a daily figure (monthly / days) and *)
(*     everything derived from it is held in fine units of 1/DailyScale    *)
(*     kWh, where DailyScale is a multiple of every days-in-month value;   *)
(*   - dod and efficiency are held in percent (80 is 0.8);                 *)
(*   - the BESS engine's prices are held in cent per kWh, its capex in     *)
(*     euro per kWh; the units of the economic engine are given with it.   *)
(* The approximated quantities are the discount factors 1/(1+r)^y, held in *)
(* fixed point with NpvScale digits, the escalated cash flows of the       *)
(* economic engine, truncated to the cent, and the Newton iteration of the *)
(* IRR, computed in decimal floating point of FloatDigits digits.          *)
(***************************************************************************)
EXTENDS Integers, Sequences, FiniteSets, TLC

VARIABLES
    call,   \* the operation that was invoked
    args,   \* its arguments
    pc,     \* position of the invocation: "start", "opt_loop", "done"
    loc,    \* locals of the invocation: of the running grid search, or the
            \* ones a finished scenario computation leaves behind
    ret     \* what the invocation returned or raised

vars == <<call, args, pc, loc, ret>>

---------------------------------------------------------------------------
(* Bounds of the model *)

\* monthly energies range over 0, 100, ..., MaxLevel * 100 kWh
MaxLevel == 2
\* vectors have 12 - LenSlack .. 12 + LenSlack entries
LenSlack == 1
\* cap of the grid search's iteration counter
MaxIters == 192
\* the analysis horizon ranges over 1 .. MaxYears years
MaxYears == 3
\* the invocations that run at the same time
MaxThreads == 2

---------------------------------------------------------------------------
(* Arithmetic helpers *)

Min(a, b) == IF a <= b THEN a ELSE b
Max(a, b) == IF a >= b THEN a ELSE b

RECURSIVE SumSeq(_)
SumSeq(s) == IF s = <<>> THEN 0 ELSE Head(s) + SumSeq(Tail(s))

\* fine units per kWh: a multiple of 28, 30 and 31 (and even, for efficiency 50%)
DailyScale == 2 * 28 * 15 * 31

NoLocals == [none |-> TRUE]
NoReturn == [status |-> "running"]

Raise(kind) == [status |-> kind]


---------------------------------------------------------------------------
(* Python call binding: BESSCalculator's methods and the number of         *)
(* parameters each requires (self excluded).  A call to a name that is not *)
(* a method raises AttributeError; a call that supplies another number of  *)
(* arguments than the method requires raises TypeError.                    *)

BESSCalculatorMethods ==
    [calculate_optimal_bess        |-> 3,
     _calculate_baseline_scenario  |-> 4,
     _optimize_bess_capacity       |-> 5,
     _calculate_bess_scenario      |-> 6,
     _calculate_economics          |-> 5,
     _calculate_technical_metrics  |-> 3,
     _calculate_npv_simple         |-> 4,
     _calculate_irr_approximation  |-> 3]

Bind(method, nargs) ==
    IF method \notin DOMAIN BESSCalculatorMethods THEN "AttributeError"
    ELSE IF BESSCalculatorMethods[method] # nargs THEN "TypeError"
    ELSE "ok"

---------------------------------------------------------------------------
(* _calculate_baseline_scenario *)

\* one iteration of the loop over the months
BaselineMonth(production, consumption) ==
    [self_consumption |-> Min(production, consumption),
     grid_import      |-> Max(0, consumption - production),
     grid_export      |-> Max(0, production - consumption)]

CalculateBaselineScenario(pv_production, consumption, electricity_price, feed_in_tariff) ==
    IF Len(pv_production) < 12 \/ Len(consumption) < 12
    THEN Raise("IndexError")
    ELSE
    LET monthly == [i \in 1..12 |-> BaselineMonth(pv_production[i], consumption[i])]
        annual_pv_production    == SumSeq(pv_production)
        annual_consumption      == SumSeq(consumption)
        annual_self_consumption == SumSeq([i \in 1..12 |-> monthly[i].self_consumption])
        annual_grid_import      == SumSeq([i \in 1..12 |-> monthly[i].grid_import])
        annual_grid_export      == SumSeq([i \in 1..12 |-> monthly[i].grid_export])
        annual_electricity_cost == annual_grid_import * electricity_price
        annual_feed_in_revenue  == annual_grid_export * feed_in_tariff
    IN  [status |-> "ok",
         annual_pv_production    |-> annual_pv_production,
         annual_consumption      |-> annual_consumption,
         annual_self_consumption |-> annual_self_consumption,
         annual_grid_import      |-> annual_grid_import,
         annual_grid_export      |-> annual_grid_export,
         annual_electricity_cost |-> annual_electricity_cost,
         annual_feed_in_revenue  |-> annual_feed_in_revenue,
         annual_net_cost         |-> annual_electricity_cost - annual_feed_in_revenue,
         \* in percent, truncated
         self_consumption_rate   |-> IF annual_pv_production > 0
                                     THEN (annual_self_consumption * 100) \div annual_pv_production
                                     ELSE 0,
         \* the locals monthly_self_consumption, monthly_grid_import, monthly_grid_export
         monthly |-> monthly]

---------------------------------------------------------------------------
(* _calculate_bess_scenario *)

DaysInMonth == <<31, 28, 31, 30, 31, 30, 31, 31, 30, 31, 30, 31>>

\* capacity in kWh, dod in percent: the usable capacity in fine units
UsableCapacity(bess_capacity, bess_params) ==
    (bess_capacity * bess_params.dod * DailyScale) \div 100

\* The body of the loop for month i.  st holds what the loop carries from
\* month to month: battery_charge and battery_discharge (function locals
\* that keep their value across iterations; "unbound" until first
\* assigned), total_energy_throughput and monthly_results.
ScenarioMonth(i, st, pv_production, consumption, usable_capacity, bess_params) ==
    LET days_in_month     == DaysInMonth[i]
        daily_pv          == pv_production[i] * (DailyScale \div days_in_month)
        daily_consumption == consumption[i] * (DailyScale \div days_in_month)
        surplus           == daily_pv > daily_consumption
        excess            == daily_pv - daily_consumption
        remaining_excess  ==
            Max(0, excess - (usable_capacity * 100) \div bess_params.efficiency)
        deficit           == daily_consumption - daily_pv
        discharge_now     == Min(deficit, usable_capacity)
        remaining_deficit == Max(0, deficit - discharge_now)
        battery_charge    ==
            IF surplus
            THEN (Min(excess, usable_capacity) * bess_params.efficiency) \div 100
            ELSE 0
        \* the surplus branch does not assign battery_discharge
        discharge_bound   == IF surplus THEN st.discharge_bound ELSE TRUE
        battery_discharge == IF surplus THEN st.battery_discharge ELSE discharge_now
        daily_self_consumption ==
            IF surplus THEN daily_consumption + (excess - remaining_excess)
                       ELSE daily_pv + discharge_now
        daily_grid_export == IF surplus THEN remaining_excess ELSE 0
        daily_grid_import == IF surplus THEN 0 ELSE remaining_deficit
        monthly_throughput == (battery_charge + battery_discharge) * days_in_month
    IN  IF ~discharge_bound
        THEN [st EXCEPT !.status = "UnboundLocalError"]
        ELSE [status                  |-> "ok",
              discharge_bound         |-> TRUE,
              battery_discharge       |-> battery_discharge,
              battery_charge          |-> battery_charge,
              total_energy_throughput |-> st.total_energy_throughput + monthly_throughput,
              monthly_results         |-> Append(st.monthly_results,
                  [self_consumption |-> daily_self_consumption * days_in_month,
                   grid_import      |-> daily_grid_import * days_in_month,
                   grid_export      |-> daily_grid_export * days_in_month,
                   throughput       |-> monthly_throughput])]

RECURSIVE ScenarioLoop(_, _, _, _, _, _)
ScenarioLoop(i, st, pv_production, consumption, usable_capacity, bess_params) ==
    IF i > 12 \/ st.status # "ok" THEN st
    ELSE IF i > Len(pv_production) \/ i > Len(consumption)
    THEN [st EXCEPT !.status = "IndexError"]
    ELSE ScenarioLoop(i + 1,
             ScenarioMonth(i, st, pv_production, consumption, usable_capacity, bess_params),
             pv_production, consumption, usable_capacity, bess_params)

ScenarioStart ==
    [status |-> "ok", discharge_bound |-> FALSE, battery_discharge |-> 0,
     battery_charge |-> 0, total_energy_throughput |-> 0, monthly_results |-> <<>>]

\* the literal of line 305
ScenarioAnnualSavings == 0

CalculateBessScenario(pv_production, consumption, bess_capacity, bess_params, electricity_price, feed_in_tariff) ==
    LET usable_capacity == UsableCapacity(bess_capacity, bess_params)
        st == ScenarioLoop(1, ScenarioStart, pv_production, consumption,
                           usable_capacity, bess_params)
    IN  IF st.status # "ok" THEN Raise(st.status)
        ELSE
        LET r == st.monthly_results
            annual_self_consumption == SumSeq([i \in 1..12 |-> r[i].self_consumption])
            annual_grid_import      == SumSeq([i \in 1..12 |-> r[i].grid_import])
            annual_grid_export      == SumSeq([i \in 1..12 |-> r[i].grid_export])
            annual_electricity_cost == annual_grid_import * electricity_price
            annual_feed_in_revenue  == annual_grid_export * feed_in_tariff
        IN  [status |-> "ok",
             annual_self_consumption |-> annual_self_consumption,
             annual_grid_import      |-> annual_grid_import,
             annual_grid_export      |-> annual_grid_export,
             annual_electricity_cost |-> annual_electricity_cost,
             annual_feed_in_revenue  |-> annual_feed_in_revenue,
             annual_net_cost         |-> annual_electricity_cost - annual_feed_in_revenue,
             annual_savings          |-> ScenarioAnnualSavings,
             daily_energy_throughput |-> st.total_energy_throughput \div 365,
             monthly_results         |-> r]

---------------------------------------------------------------------------
(* _calculate_npv_simple *)

\* resolution of the fixed-point discount factors
NpvScale == 10 * 10 * 10

\* NpvScale / (1 + discount_rate)^year, discount_rate in percent
RECURSIVE DiscountFactor(_, _)
DiscountFactor(discount_rate, year) ==
    IF year = 0 THEN NpvScale
    ELSE (DiscountFactor(discount_rate, year - 1) * 100) \div (100 + discount_rate)

RECURSIVE DiscountedSum(_, _, _)
DiscountedSum(annual_cashflow, discount_rate, year) ==
    IF year = 0 THEN 0
    ELSE DiscountedSum(annual_cashflow, discount_rate, year - 1)
         + annual_cashflow * DiscountFactor(discount_rate, year)

\* the NPV times NpvScale
CalculateNpvSimple(annual_cashflow, initial_investment, discount_rate, years) ==
    (0 - initial_investment) * NpvScale
    + DiscountedSum(annual_cashflow, discount_rate, years)

---------------------------------------------------------------------------
(* _optimize_bess_capacity: the grid search, one action per loop step *)

\* the search range and step of lines 190, 191 and 198, in percent of the
\* average monthly consumption and of the minimum capacity
MinCapacityPercent == 10
MaxCapacityPercent == 200
StepPercent        == 10
\* the discount rate (percent) and horizon of line 218
SearchWacc  == 5
SearchYears == 20

\* money is held in cent
CentPerEuro == 10 * 10

\* (mutant of NpvImproves: a tie replaces the best candidate)
NpvImprovesOrTies(npv, l) == l.best_is_neg_inf \/ npv >= l.best_npv

\* npv > best_npv, where best_npv starts at float('-inf')
NpvImproves(npv, l) == l.best_is_neg_inf \/ npv > l.best_npv

\* lines 189-199
OptimizeLocals(consumption_profile) ==
    LET monthly_avg_consumption == SumSeq(consumption_profile.monthly_kwh) \div 12
        min_capacity == (monthly_avg_consumption * MinCapacityPercent) \div 100
    IN  [min_capacity     |-> min_capacity,
         max_capacity     |-> (monthly_avg_consumption * MaxCapacityPercent) \div 100,
         best_is_neg_inf  |-> TRUE,
         best_npv         |-> 0,
         optimal_capacity |-> min_capacity,
         step             |-> (min_capacity * StepPercent) \div 100,
         current_capacity |-> min_capacity,
         \* what each candidate tried so far gave, in order
         evaluated        |-> <<>>]

\* lines 203-224: the body of the while loop for one candidate
OptimizeBody(l, a, bess_scenario) ==
    LET annual_savings == bess_scenario.annual_savings
        capex          == l.current_capacity * a.bess_params.capex_per_kwh * CentPerEuro
        opex_annual    == (capex * a.bess_params.opex_annual_percent) \div 100
        npv            == CalculateNpvSimple(annual_savings - opex_annual, capex,
                                             SearchWacc, SearchYears)
        better         == NpvImproves(npv, l)
    IN  [l EXCEPT
            !.best_is_neg_inf  = IF better THEN FALSE ELSE @,
            !.best_npv         = IF better THEN npv ELSE @,
            !.optimal_capacity = IF better THEN l.current_capacity ELSE @,
            !.current_capacity = @ + l.step,
            !.evaluated        = Append(@,
                [capacity        |-> l.current_capacity,
                 npv             |-> npv,
                 annual_net_cost |-> bess_scenario.annual_net_cost,
                 annual_savings  |-> annual_savings,
                 opex_annual     |-> opex_annual])]

OptimizeBegin ==
    /\ call = "_optimize_bess_capacity"
    /\ pc = "start"
    /\ loc' = OptimizeLocals(args.consumption_profile)
    /\ pc' = "opt_loop"
    /\ UNCHANGED <<call, args, ret>>

OptimizeIterate ==
    /\ pc = "opt_loop"
    /\ loc.current_capacity <= loc.max_capacity
    /\ Len(loc.evaluated) < MaxIters
    /\ LET bess_scenario == CalculateBessScenario(args.pv_production,
                                args.consumption_profile.monthly_kwh,
                                loc.current_capacity, args.bess_params,
                                args.electricity_price, args.feed_in_tariff)
       IN  IF bess_scenario.status # "ok"
           THEN /\ ret' = bess_scenario
                /\ pc' = "done"
                /\ UNCHANGED loc
           ELSE /\ loc' = OptimizeBody(loc, args, bess_scenario)
                /\ UNCHANGED <<pc, ret>>
    /\ UNCHANGED <<call, args>>

OptimizeReturn ==
    /\ pc = "opt_loop"
    /\ loc.current_capacity > loc.max_capacity
    /\ ret' = [status |-> "ok", optimal_capacity |-> loc.optimal_capacity]
    /\ pc' = "done"
    /\ UNCHANGED <<call, args, loc>>

---------------------------------------------------------------------------
(* calculate_optimal_bess *)

\* The try block of lines 74-121.  Line 76 calls _calculate_baseline_scenario
\* with two arguments; line 82 calls _optimize_bess_capacity_technical.
\* Whatever is raised is logged and raised again (lines 123-125).
CalculateOptimalBess(pv_production_monthly, consumption_profile, bess_params) ==
    LET baseline == Bind("_calculate_baseline_scenario", 2)
    IN  IF baseline # "ok" THEN Raise(baseline)
        ELSE Raise(Bind("_optimize_bess_capacity_technical", 3))

CallCalculateOptimalBess ==
    /\ call = "calculate_optimal_bess"
    /\ pc = "start"
    /\ ret' = CalculateOptimalBess(args.pv_production, args.consumption_profile,
                                   args.bess_params)
    /\ pc' = "done"
    /\ UNCHANGED <<call, args, loc>>

CallCalculateBaselineScenario ==
    /\ call = "_calculate_baseline_scenario"
    /\ pc = "start"
    /\ ret' = CalculateBaselineScenario(args.pv_production,
                  args.consumption_profile.monthly_kwh,
                  args.electricity_price, args.feed_in_tariff)
    /\ pc' = "done"
    /\ UNCHANGED <<call, args, loc>>

CallCalculateBessScenario ==
    /\ call = "_calculate_bess_scenario"
    /\ pc = "start"
    /\ ret' = CalculateBessScenario(args.pv_production,
                  args.consumption_profile.monthly_kwh, args.bess_capacity,
                  args.bess_params, args.electricity_price, args.feed_in_tariff)
    /\ pc' = "done"
    /\ UNCHANGED <<call, args, loc>>

---------------------------------------------------------------------------
(* The economic evaluation engine (src/economic_calculator.py).            *)
(*                                                                         *)
(* Units: amounts of money in cent; a price in 1/PricePerCent cent per     *)
(* kWh; capex per kWp or per kWh in cent; an opex share or the wacc in per *)
(* mille (15 is 0.015, 50 is 0.05); an escalation in percent.  On the      *)
(* inputs of the model every product and division of the scenario builders *)
(* is exact, except the escalation of a cash flow, truncated to the cent,  *)
(* and the discount factors, held in fixed point with NpvScale digits.     *)
(* The Newton iteration of the IRR divides by powers of (1 + rate) for     *)
(* rates down to -0.99, so it is computed in decimal floating point with   *)
(* FloatDigits significant digits.                                         *)

\* an Optional[float] argument: None, or a supplied value
None == <<>>
Some(v) == <<v>>

\* the truth value Python gives an Optional[float]: None and 0 are false
Truthy(x) == x # None /\ x[1] # 0

PricePerCent == 100
PerMille == 1000

\* the dataclass with its default values
EconomicParameters ==
    [electricity_price_f1 |-> 28 * PricePerCent,
     electricity_price_f2 |-> 25 * PricePerCent,
     electricity_price_f3 |-> 22 * PricePerCent,
     feed_in_tariff |-> 5 * PricePerCent,
     pv_capex_per_kwp |-> 1200 * CentPerEuro,
     pv_opex_annual_percent |-> 15,
     bess_capex_per_kwh |-> 500 * CentPerEuro,
     bess_opex_annual_percent |-> 10,
     wacc |-> 50,
     analysis_years |-> 20,
     electricity_price_escalation |-> 2,
     opex_escalation |-> 2]

---------------------------------------------------------------------------
(* Decimal floating point: the number m * 10^e, with m = 0 or m of         *)
(* FloatDigits digits.  Results are truncated to FloatDigits digits.       *)

Abs(x) == IF x < 0 THEN 0 - x ELSE x
Sign(x) == IF x < 0 THEN 0 - 1 ELSE 1

FloatDigits == 4

Pow10 == <<10, 100, 1000, 10000, 100000, 1000000, 10000000, 100000000, 1000000000>>
Ten(k) == IF k = 0 THEN 1 ELSE Pow10[k]

Digits(a) ==
    IF a < Ten(1) THEN 1 ELSE IF a < Ten(2) THEN 2 ELSE IF a < Ten(3) THEN 3
    ELSE IF a < Ten(4) THEN 4 ELSE IF a < Ten(5) THEN 5 ELSE IF a < Ten(6) THEN 6
    ELSE IF a < Ten(7) THEN 7 ELSE IF a < Ten(8) THEN 8 ELSE IF a < Ten(9) THEN 9
    ELSE 10

Float(m, e) ==
    IF m = 0 THEN [m |-> 0, e |-> 0]
    ELSE LET d == Digits(Abs(m))
         IN  IF d > FloatDigits
             THEN [m |-> Sign(m) * (Abs(m) \div Ten(d - FloatDigits)),
                   e |-> e + (d - FloatDigits)]
             ELSE [m |-> m * Ten(FloatDigits - d), e |-> e - (FloatDigits - d)]

FNeg(a) == [m |-> 0 - a.m, e |-> a.e]
FAbs(a) == [m |-> Abs(a.m), e |-> a.e]
FMul(a, b) == Float(a.m * b.m, a.e + b.e)

\* b is not zero
FDiv(a, b) ==
    Float(Sign(a.m) * Sign(b.m) * ((Abs(a.m) * Ten(FloatDigits + 1)) \div Abs(b.m)),
          a.e - b.e - (FloatDigits + 1))

FAdd(a, b) ==
    IF a.m = 0 THEN b
    ELSE IF b.m = 0 THEN a
    ELSE IF a.e >= b.e
    THEN IF a.e - b.e > FloatDigits + 1 THEN a
         ELSE Float(a.m * Ten(a.e - b.e) + b.m, b.e)
    ELSE IF b.e - a.e > FloatDigits + 1 THEN b
         ELSE Float(b.m * Ten(b.e - a.e) + a.m, a.e)

FSub(a, b) == FAdd(a, FNeg(b))
FLess(a, b) == FSub(a, b).m < 0

\* the floats of a list of amounts in cent, in euro
EuroFloats(amounts) == [i \in 1..Len(amounts) |-> Float(amounts[i], 0 - 2)]

RECURSIVE FPow(_, _)
FPow(a, i) == IF i = 0 THEN Float(1, 0) ELSE FMul(FPow(a, i - 1), a)

---------------------------------------------------------------------------
(* _calculate_irr *)

\* sum(cf / (1 + rate) ** i for i, cf in enumerate(cash_flows)), from the
\* entry of index i = k - 1 on; cash_flows is a list of floats
RECURSIVE IrrNpv(_, _, _)
IrrNpv(cash_flows, rate, k) ==
    IF k > Len(cash_flows) THEN Float(0, 0)
    ELSE FAdd(FDiv(cash_flows[k], FPow(FAdd(Float(1, 0), rate), k - 1)),
              IrrNpv(cash_flows, rate, k + 1))

\* sum(-i * cf / (1 + rate) ** (i + 1) for i, cf in enumerate(cash_flows) if i > 0)
RECURSIVE IrrNpvDerivative(_, _, _)
IrrNpvDerivative(cash_flows, rate, k) ==
    IF k > Len(cash_flows) THEN Float(0, 0)
    ELSE FAdd(FDiv(FMul(Float(0 - (k - 1), 0), cash_flows[k]),
                   FPow(FAdd(Float(1, 0), rate), k)),
              IrrNpvDerivative(cash_flows, rate, k + 1))

IrrIterations == 100
IrrInitialRate == Float(1, 0 - 1)
IrrNpvTolerance == Float(1, 0 - 6)
IrrDerivativeTolerance == Float(1, 0 - 10)
IrrMinRate == Float(0 - 99, 0 - 2)
IrrMaxRate == Float(10, 0)

\* the clamp of an updated rate
IrrClamp(rate) ==
    IF FLess(rate, IrrMinRate) THEN IrrMinRate
    ELSE IF FLess(IrrMaxRate, rate) THEN IrrMaxRate
    ELSE rate

\* what a pass does once it has computed npv and npv_derivative: return on
\* convergence, break on a flat derivative, or the Newton update followed
\* by the clamp
IrrDecide(rate, npv, npv_derivative) ==
    IF FLess(FAbs(npv), IrrNpvTolerance)
    THEN [kind |-> "return", rate |-> rate]
    ELSE IF FLess(FAbs(npv_derivative), IrrDerivativeTolerance)
    THEN [kind |-> "break", rate |-> rate]
    ELSE [kind |-> "next", rate |-> IrrClamp(FSub(rate, FDiv(npv, npv_derivative)))]

\* one pass of the loop body
IrrIterate(cash_flows, rate) ==
    IrrDecide(rate, IrrNpv(cash_flows, rate, 1), IrrNpvDerivative(cash_flows, rate, 2))

\* the state of the loop before its first pass: kind is "next" while the
\* loop goes on, iterations counts the passes that ended in an update
IrrStart == [kind |-> "next", rate |-> IrrInitialRate, iterations |-> 0]

IrrAdvance(st, pass) ==
    [kind |-> pass.kind, rate |-> pass.rate,
     iterations |-> IF pass.kind = "next" THEN st.iterations + 1 ELSE st.iterations]

\* one pass of the loop from the state st
IrrPass(cash_flows, st) == IrrAdvance(st, IrrIterate(cash_flows, st.rate))

\* the next n passes of the loop from the state st
RECURSIVE IrrPasses(_, _, _)
IrrPasses(cash_flows, st, n) ==
    IF n = 0 \/ st.kind # "next" THEN st
    ELSE IrrPasses(cash_flows, IrrPass(cash_flows, st), n - 1)

\* the next n passes, taken in rounds of IrrRound passes
IrrRound == 10
RECURSIVE IrrLoop(_, _, _)
IrrLoop(cash_flows, st, n) ==
    IF n = 0 \/ st.kind # "next" THEN st
    ELSE IrrLoop(cash_flows, IrrPasses(cash_flows, st, Min(n, IrrRound)),
                 n - Min(n, IrrRound))

\* what is returned when the loop has ended in the state loop: the rate of
\* the convergence, or after a break or IrrIterations passes the last rate
\* if it lies inside (-1, 10), else 0
IrrResult(loop) ==
    IF loop.kind = "return" THEN loop.rate
    ELSE IF FLess(Float(0 - 1, 0), loop.rate) /\ FLess(loop.rate, IrrMaxRate)
    THEN loop.rate
    ELSE Float(0, 0)

\* no operation of the loop raises on these operands, so the except branch
\* (return 0) is not taken
CalculateIrr(cash_flows) == IrrResult(IrrLoop(cash_flows, IrrStart, IrrIterations))

---------------------------------------------------------------------------
(* _calculate_npv and _calculate_payback *)

\* NpvScale * (1 + discount_rate) ** i: compounding instead of discounting
RECURSIVE DiscountCompounded(_, _)
DiscountCompounded(discount_rate, i) ==
    IF i = 0 THEN NpvScale
    ELSE (DiscountCompounded(discount_rate, i - 1) * (PerMille + discount_rate))
             \div PerMille

\* NpvScale / (1 + discount_rate) ** i, the rate in per mille
RECURSIVE Discount(_, _)
Discount(discount_rate, i) ==
    IF i = 0 THEN NpvScale
    ELSE (Discount(discount_rate, i - 1) * PerMille) \div (PerMille + discount_rate)

\* the loop from the entry of index i = k - 1 on
RECURSIVE NpvFrom(_, _, _)
NpvFrom(cash_flows, discount_rate, k) ==
    IF k > Len(cash_flows) THEN 0
    ELSE cash_flows[k] * Discount(discount_rate, k - 1)
         + NpvFrom(cash_flows, discount_rate, k + 1)

\* the NPV in 1/NpvScale cent
CalculateNpv(cash_flows, discount_rate) == NpvFrom(cash_flows, discount_rate, 1)

\* a payback period: float('inf'), or the quotient num / den of a division
Never == [inf |-> TRUE, num |-> 0, den |-> 1]
Quotient(num, den) == [inf |-> FALSE, num |-> num, den |-> den]

\* a true division: ZeroDivisionError when the divisor is 0
Divide(num, den) ==
    IF den = 0 THEN Raise("ZeroDivisionError")
    ELSE [status |-> "ok", value |-> Quotient(num, den)]

\* the loop at the year of index year, cumulative_cf being the sum of the
\* earlier years
RECURSIVE PaybackLoop(_, _, _, _)
PaybackLoop(initial_investment, cash_flows, year, cumulative_cf) ==
    IF year >= Len(cash_flows) THEN [status |-> "ok", value |-> Never]
    ELSE LET cf == cash_flows[year + 1]
             cumulative == cumulative_cf + cf
         IN  IF cumulative >= initial_investment
             THEN IF year = 0
                  THEN IF cf > 0 THEN Divide(cf, initial_investment)
                       ELSE [status |-> "ok", value |-> Never]
                  ELSE \* year + (initial_investment - previous_cumulative) / cf
                       LET fraction == Divide(initial_investment - cumulative_cf, cf)
                       IN  IF fraction.status # "ok" THEN fraction
                           ELSE [status |-> "ok",
                                 value |-> Quotient(year * cf + fraction.value.num, cf)]
             ELSE PaybackLoop(initial_investment, cash_flows, year + 1, cumulative)

\* _calculate_payback, with the horizon reported when the loop ends without
\* a return
CalculatePaybackCapped(initial_investment, cash_flows) ==
    LET payback == PaybackLoop(initial_investment, cash_flows, 0, 0)
    IN  IF payback.status = "ok" /\ payback.value.inf
        THEN [status |-> "ok", value |-> Quotient(Len(cash_flows), 1)]
        ELSE payback

CalculatePayback(initial_investment, cash_flows) ==
    PaybackLoop(initial_investment, cash_flows, 0, 0)

---------------------------------------------------------------------------
(* _calculate_pv_only_scenario and _calculate_pv_bess_scenario *)

\* one iteration of the loop over the months
PvOnlyMonthNoFloor(production, consumption) ==
    [self_consumption |-> Min(production, consumption),
     grid_export      |-> Max(0, production - consumption),
     grid_import      |-> consumption - production]

PvOnlyMonth(production, consumption) ==
    [self_consumption |-> Min(production, consumption),
     grid_export      |-> Max(0, production - consumption),
     grid_import      |-> Max(0, consumption - production)]

\* the locals monthly_self_consumption, monthly_grid_export and
\* monthly_grid_import when the loop has run
PvOnlyMonths(pv_production_monthly, consumption_monthly) ==
    [i \in 1..12 |-> PvOnlyMonth(pv_production_monthly[i], consumption_monthly[i])]

\* f1 * 0.33 + f2 * 0.33 + f3 * 0.34
AvgElectricityPrice(economic_params) ==
    (economic_params.electricity_price_f1 * 33
     + economic_params.electricity_price_f2 * 33
     + economic_params.electricity_price_f3 * 34) \div 100

\* in cent
AnnualSavings(annual_self_consumption, annual_grid_export, economic_params) ==
    (annual_self_consumption * AvgElectricityPrice(economic_params)
     + annual_grid_export * economic_params.feed_in_tariff) \div PricePerCent

\* EscScale * (1 + rate) ** year, the rate in percent
EscScale == 10000
RECURSIVE Escalation(_, _)
Escalation(rate, year) ==
    IF year = 0 THEN EscScale
    ELSE (Escalation(rate, year - 1) * (100 + rate)) \div 100

Escalated(amount, rate, year) == (amount * Escalation(rate, year)) \div EscScale

\* the loop over range(analysis_years): the entry of index year is at year + 1
CashFlows(annual_savings, opex_annual, economic_params) ==
    [y \in 1..economic_params.analysis_years |->
        Escalated(annual_savings, economic_params.electricity_price_escalation, y - 1)
        - Escalated(opex_annual, economic_params.opex_escalation, y - 1)]

\* the three figures computed from an investment and its cash flows, or
\* what the payback has raised
AppraiseWith(payback, capex, cash_flows, economic_params) ==
    IF payback.status # "ok" THEN payback
    ELSE [status  |-> "ok",
          npv     |-> CalculateNpv(<<0 - capex>> \o cash_flows, economic_params.wacc),
          irr     |-> CalculateIrr(EuroFloats(<<0 - capex>> \o cash_flows)),
          payback |-> payback.value]

Appraise(capex, cash_flows, economic_params) ==
    AppraiseWith(CalculatePayback(capex, cash_flows), capex, cash_flows, economic_params)

\* the dict a scenario builder returns
ScenarioResults(figures, capex, annual_opex, annual_savings, cash_flows, annual_self_consumption, annual_grid_export, annual_grid_import) ==
    IF figures.status # "ok" THEN figures
    ELSE [status |-> "ok",
          npv |-> figures.npv, irr |-> figures.irr, payback |-> figures.payback,
          capex |-> capex,
          annual_opex |-> annual_opex,
          annual_savings |-> annual_savings,
          cash_flows |-> cash_flows,
          annual_self_consumption |-> annual_self_consumption,
          annual_grid_export |-> annual_grid_export,
          annual_grid_import |-> annual_grid_import]

CalculatePvOnlyScenario(pv_power_kwp, pv_production_annual, pv_production_monthly, consumption_monthly, economic_params) ==
    IF Len(pv_production_monthly) < 12 \/ Len(consumption_monthly) < 12
    THEN Raise("IndexError")
    ELSE
    LET pv_capex       == pv_power_kwp * economic_params.pv_capex_per_kwp
        pv_opex_annual == (pv_capex * economic_params.pv_opex_annual_percent) \div PerMille
        monthly        == PvOnlyMonths(pv_production_monthly, consumption_monthly)
        annual_self_consumption == SumSeq([i \in 1..12 |-> monthly[i].self_consumption])
        annual_grid_export      == SumSeq([i \in 1..12 |-> monthly[i].grid_export])
        annual_grid_import      == SumSeq([i \in 1..12 |-> monthly[i].grid_import])
        annual_savings == AnnualSavings(annual_self_consumption, annual_grid_export,
                                        economic_params)
        cash_flows     == CashFlows(annual_savings, pv_opex_annual, economic_params)
    IN  ScenarioResults(Appraise(pv_capex, cash_flows, economic_params),
            pv_capex, pv_opex_annual, annual_savings, cash_flows,
            annual_self_consumption, annual_grid_export, annual_grid_import)

CalculatePvBessScenario(pv_power_kwp, pv_production_annual, pv_production_monthly, consumption_monthly, bess_capacity_kwh, bess_self_consumption_increase, economic_params) ==
    LET pv_capex          == pv_power_kwp * economic_params.pv_capex_per_kwp
        bess_capex        == bess_capacity_kwh * economic_params.bess_capex_per_kwh
        total_capex       == pv_capex + bess_capex
        pv_opex_annual    == (pv_capex * economic_params.pv_opex_annual_percent) \div PerMille
        bess_opex_annual  == (bess_capex * economic_params.bess_opex_annual_percent) \div PerMille
        total_opex_annual == pv_opex_annual + bess_opex_annual
        annual_self_consumption_base ==
            Min(pv_production_annual, SumSeq(consumption_monthly))
        annual_self_consumption_with_bess ==
            annual_self_consumption_base + bess_self_consumption_increase
        annual_grid_export ==
            Max(0, pv_production_annual - annual_self_consumption_with_bess)
        annual_grid_import ==
            Max(0, SumSeq(consumption_monthly) - annual_self_consumption_with_bess)
        annual_savings == AnnualSavings(annual_self_consumption_with_bess,
                                        annual_grid_export, economic_params)
        cash_flows     == CashFlows(annual_savings, total_opex_annual, economic_params)
    IN  ScenarioResults(Appraise(total_capex, cash_flows, economic_params),
            total_capex, total_opex_annual, annual_savings, cash_flows,
            annual_self_consumption_with_bess, annual_grid_export, annual_grid_import)

---------------------------------------------------------------------------
(* _calculate_incremental_bess_economics, _calculate_sensitivity_analysis  *)
(* and _calculate_lcoe                                                     *)

\* the cash flows of the PV+BESS scenario, the PV-only ones not subtracted
IncrementalCashFlowsGross(pv_only_results, pv_bess_results) ==
    [i \in 1..Len(pv_only_results.cash_flows) |-> pv_bess_results.cash_flows[i]]

\* the local incremental_cash_flows (lines 364-367)
IncrementalCashFlows(pv_only_results, pv_bess_results) ==
    [i \in 1..Len(pv_only_results.cash_flows) |->
        pv_bess_results.cash_flows[i] - pv_only_results.cash_flows[i]]

CalculateIncrementalBessEconomics(pv_only_results, pv_bess_results, bess_capacity_kwh, economic_params) ==
    Appraise(bess_capacity_kwh * economic_params.bess_capex_per_kwh,
             IncrementalCashFlows(pv_only_results, pv_bess_results), economic_params)

Variations == <<0 - 20, 0 - 10, 0, 10, 20>>

SensitivityParams ==
    [electricity_price |-> "electricity_price_f2",
     pv_capex          |-> "pv_capex_per_kwp",
     bess_capex        |-> "bess_capex_per_kwh",
     wacc              |-> "wacc"]

\* f"{variation:+d}%"
VariationLabel(variation) ==
    (IF variation < 0 THEN "-" ELSE "+") \o ToString(Abs(variation)) \o "%"

\* a fresh EconomicParameters with base_value * (1 + variation / 100) set
ModifiedParams(base_params, param_attr, variation) ==
    [base_params EXCEPT ![param_attr] = (base_params[param_attr] * (100 + variation)) \div 100]

\* the body of the try block: 70% of the production at the price f2, and
\* 1.5% of the capex as opex
SensitivityNpv(pv_power_kwp, pv_production_annual, bess_capacity_kwh, modified_params) ==
    LET pv_capex       == pv_power_kwp * modified_params.pv_capex_per_kwp
        bess_capex     == bess_capacity_kwh * modified_params.bess_capex_per_kwh
        total_capex    == pv_capex + bess_capex
        annual_savings == (pv_production_annual * modified_params.electricity_price_f2 * 7)
                              \div (10 * PricePerCent)
        annual_opex    == (total_capex * 15) \div PerMille
        cash_flows     == [y \in 1..modified_params.analysis_years |->
                              annual_savings - annual_opex]
    IN  CalculateNpv(<<0 - total_capex>> \o cash_flows, modified_params.wacc)

CalculateSensitivityAnalysis(pv_power_kwp, pv_production_annual, consumption_annual, bess_capacity_kwh, economic_params) ==
    [param_name \in DOMAIN SensitivityParams |->
        [label \in {VariationLabel(Variations[j]) : j \in 1..Len(Variations)} |->
            LET j == CHOOSE k \in 1..Len(Variations) : VariationLabel(Variations[k]) = label
            IN  SensitivityNpv(pv_power_kwp, pv_production_annual, bess_capacity_kwh,
                    ModifiedParams(economic_params, SensitivityParams[param_name],
                                   Variations[j]))]]

\* discounted costs over discounted production, in cent per kWh
CalculateLcoe(capex, annual_opex, annual_production, economic_params) ==
    LET years == economic_params.analysis_years
        cost_cash_flows ==
            <<capex>> \o [y \in 1..years |->
                Escalated(annual_opex, economic_params.opex_escalation, y - 1)]
        discounted_production ==
            SumSeq([y \in 1..years |->
                annual_production * Discount(economic_params.wacc, y)])
        discounted_costs == NpvFrom(cost_cash_flows, economic_params.wacc, 1)
    IN  IF discounted_production > 0
        THEN Quotient(discounted_costs, discounted_production)
        ELSE Quotient(0, 1)

---------------------------------------------------------------------------
(* calculate_complete_economic_analysis *)

\* the three locals when no scenario builder has raised
Scenarios(pv_only_results, pv_bess_results, incremental_results) ==
    IF incremental_results.status # "ok" THEN incremental_results
    ELSE [status |-> "ok",
          pv_only_results |-> pv_only_results,
          pv_bess_results |-> pv_bess_results,
          incremental_results |-> incremental_results]

\* Lines 134-140, after the PV+BESS scenario.
IncrementalScenario(pv_only_results, pv_bess_results, bess_capacity_kwh, economic_params) ==
    IF pv_bess_results.status # "ok" THEN pv_bess_results
    ELSE Scenarios(pv_only_results, pv_bess_results,
             CalculateIncrementalBessEconomics(pv_only_results, pv_bess_results,
                 bess_capacity_kwh, economic_params))

\* Lines 122-148, after the PV-only scenario: the branch on the two BESS
\* arguments.
BessScenario(pv_only_results, pv_power_kwp, pv_production_annual, pv_production_monthly, consumption_monthly, bess_capacity_kwh, bess_self_consumption_increase, economic_params) ==
    IF pv_only_results.status # "ok" THEN pv_only_results
    ELSE IF Truthy(bess_capacity_kwh) /\ Truthy(bess_self_consumption_increase)
    THEN IncrementalScenario(pv_only_results,
             CalculatePvBessScenario(pv_power_kwp, pv_production_annual,
                 pv_production_monthly, consumption_monthly, bess_capacity_kwh[1],
                 bess_self_consumption_increase[1], economic_params),
             bess_capacity_kwh[1], economic_params)
    ELSE Scenarios(pv_only_results, pv_only_results,
             [status |-> "ok", npv |-> 0, irr |-> Float(0, 0), payback |-> Never])

\* Lines 113-148: the locals pv_only_results, pv_bess_results and
\* incremental_results, or what one of the scenario builders raised.
EconomicScenarios(pv_power_kwp, pv_production_annual, pv_production_monthly, consumption_monthly, bess_capacity_kwh, bess_self_consumption_increase, economic_params) ==
    BessScenario(
        CalculatePvOnlyScenario(pv_power_kwp, pv_production_annual,
            pv_production_monthly, consumption_monthly, economic_params),
        pv_power_kwp, pv_production_annual, pv_production_monthly,
        consumption_monthly, bess_capacity_kwh, bess_self_consumption_increase,
        economic_params)

\* Lines 150-197: the sensitivity analysis, the LCOE and the EconomicResults
\* built from the locals.
EconomicResults(scenarios, pv_power_kwp, pv_production_annual, consumption_annual, bess_capacity_kwh, economic_params) ==
    LET pv_only_results     == scenarios.pv_only_results
        pv_bess_results     == scenarios.pv_bess_results
        incremental_results == scenarios.incremental_results
    IN  [status |-> "ok",
         pv_only_npv            |-> pv_only_results.npv,
         pv_only_irr            |-> pv_only_results.irr,
         pv_only_payback        |-> pv_only_results.payback,
         pv_only_capex          |-> pv_only_results.capex,
         pv_only_annual_savings |-> pv_only_results.annual_savings,
         pv_bess_npv            |-> pv_bess_results.npv,
         pv_bess_irr            |-> pv_bess_results.irr,
         pv_bess_payback        |-> pv_bess_results.payback,
         pv_bess_capex          |-> pv_bess_results.capex,
         pv_bess_annual_savings |-> pv_bess_results.annual_savings,
         bess_incremental_npv     |-> incremental_results.npv,
         bess_incremental_irr     |-> incremental_results.irr,
         bess_incremental_payback |-> incremental_results.payback,
         annual_cash_flows_pv      |-> pv_only_results.cash_flows,
         annual_cash_flows_pv_bess |-> pv_bess_results.cash_flows,
         sensitivity_analysis |->
             CalculateSensitivityAnalysis(pv_power_kwp, pv_production_annual,
                 consumption_annual,
                 IF Truthy(bess_capacity_kwh) THEN bess_capacity_kwh[1] ELSE 0,
                 economic_params),
         total_investment        |-> pv_bess_results.capex,
         total_annual_production |-> pv_production_annual,
         total_annual_savings    |-> pv_bess_results.annual_savings,
         lcoe |-> CalculateLcoe(pv_only_results.capex, pv_only_results.annual_opex,
                                pv_production_annual, economic_params)]

\* what the method leaves: the EconomicResults it returns and its locals,
\* or what was raised inside the try block and is raised again (lines
\* 199-201)
AnalysisOutcome(scenarios, a) ==
    IF scenarios.status # "ok"
    THEN [ret |-> scenarios, loc |-> NoLocals]
    ELSE [ret |-> EconomicResults(scenarios, a.pv_power_kwp, a.pv_production_annual,
                      a.consumption_annual, a.bess_capacity_kwh, a.economic_params),
          loc |-> scenarios]

CalculateCompleteEconomicAnalysis(a) ==
    AnalysisOutcome(
        EconomicScenarios(a.pv_power_kwp, a.pv_production_annual,
            a.pv_production_monthly, a.consumption_monthly, a.bess_capacity_kwh,
            a.bess_self_consumption_increase, a.economic_params),
        a)

CallCalculateCompleteEconomicAnalysis ==
    /\ call = "calculate_complete_economic_analysis"
    /\ pc = "start"
    /\ \E outcome \in {CalculateCompleteEconomicAnalysis(args)} :
          /\ ret' = outcome.ret
          /\ loc' = outcome.loc
    /\ pc' = "done"
    /\ UNCHANGED <<call, args>>

\* a direct call of the PV-only scenario builder; loc keeps the monthly
\* lists the loop has filled
CallCalculatePvOnlyScenario ==
    /\ call = "_calculate_pv_only_scenario"
    /\ pc = "start"
    /\ ret' = CalculatePvOnlyScenario(args.pv_power_kwp, args.pv_production_annual,
                  args.pv_production_monthly, args.consumption_monthly,
                  args.economic_params)
    /\ loc' = IF Len(args.pv_production_monthly) < 12 \/ Len(args.consumption_monthly) < 12
              THEN NoLocals
              ELSE [monthly |-> PvOnlyMonths(args.pv_production_monthly,
                                             args.consumption_monthly)]
    /\ pc' = "done"
    /\ UNCHANGED <<call, args>>

---------------------------------------------------------------------------
(* The inputs of the BESS engine *)

Levels == {l * 100 : l \in 0..MaxLevel}

\* a 12-month vector with one level from April to September and another
\* in the other months
Seasonal(n, winter, summer) == [i \in 1..n |-> IF i \in 4..9 THEN summer ELSE winter]

ValidVectors == {Seasonal(12, w, s) : w, s \in Levels}

\* wrong length, or a negative entry
InvalidVectors ==
    {Seasonal(n, 100, 100) : n \in ((12 - LenSlack)..(12 + LenSlack)) \ {12}}
    \cup {[Seasonal(12, 100, 100) EXCEPT ![m] = 0 - 100] : m \in {1, 12}}

Vectors == ValidVectors \cup InvalidVectors

IsValidVector(v) == Len(v) = 12 /\ \A i \in 1..Len(v) : v[i] >= 0

\* the ranges the data model gives for BESSParameters
IsValidBessParams(b) ==
    /\ b.dod \in 1..100
    /\ b.efficiency \in 1..100
    /\ b.capex_per_kwh >= 0
    /\ b.opex_annual_percent >= 0

Profile(v) == [monthly_kwh |-> v]

BessParams(dod, efficiency, capex_per_kwh, opex_annual_percent) ==
    [dod |-> dod, c_rate |-> 50, efficiency |-> efficiency,
     capex_per_kwh |-> capex_per_kwh, opex_annual_percent |-> opex_annual_percent]

BessParamSets ==
    {BessParams(80, 100, 5, 1), BessParams(5, 50, 5, 0), BessParams(5, 100, 0, 1),
     BessParams(5, 50, 0 - 5, 1), BessParams(0, 100, 5, 1)}

\* the grid search divides the total consumption by 12, by 10 and by 10
SearchVectors == {v \in ValidVectors : SumSeq(v) % 1200 = 0}

BessArgs(call_name) ==
    IF call_name = "calculate_optimal_bess"
    THEN {[pv_production |-> p, consumption_profile |-> Profile(c), bess_params |-> b] :
            p \in Vectors, c \in Vectors, b \in {BessParams(80, 100, 5, 1)}}
    ELSE IF call_name = "_calculate_baseline_scenario"
    THEN {[pv_production |-> p, consumption_profile |-> Profile(c),
           electricity_price |-> 20, feed_in_tariff |-> 5] :
            p \in Vectors, c \in Vectors}
    ELSE IF call_name = "_calculate_bess_scenario"
    THEN {[pv_production |-> p, consumption_profile |-> Profile(c), bess_capacity |-> k,
           bess_params |-> b, electricity_price |-> 20, feed_in_tariff |-> 5] :
            p \in Vectors, c \in Vectors, k \in {0, 10, 100},
            b \in {x \in BessParamSets : x.capex_per_kwh >= 0}}
    ELSE {[pv_production |-> p, consumption_profile |-> Profile(c),
           bess_params |-> b, electricity_price |-> 20, feed_in_tariff |-> 5] :
            p \in ValidVectors, c \in SearchVectors, b \in BessParamSets}

---------------------------------------------------------------------------
(* The inputs of the economic engine *)

\* the default parameters with a horizon of y years
Horizon(y) == [EconomicParameters EXCEPT !.analysis_years = y]

\* the horizons, a PV plant that costs nothing, and a negative price
EconomicParamSets ==
    {Horizon(y) : y \in 1..MaxYears}
    \cup {[Horizon(MaxYears) EXCEPT !.pv_capex_per_kwp = 0],
          [Horizon(MaxYears) EXCEPT !.electricity_price_f2 = 0 - 25 * PricePerCent]}

\* all monetary rates are non-negative
IsValidEconomicParams(p) ==
    /\ p.electricity_price_f1 >= 0 /\ p.electricity_price_f2 >= 0
    /\ p.electricity_price_f3 >= 0 /\ p.feed_in_tariff >= 0
    /\ p.pv_capex_per_kwp >= 0 /\ p.pv_opex_annual_percent >= 0
    /\ p.bess_capex_per_kwh >= 0 /\ p.bess_opex_annual_percent >= 0
    /\ p.analysis_years >= 1

\* bess_capacity_kwh and bess_self_consumption_increase: absent or supplied
BessInputs ==
    {<<None, None>>, <<Some(10), None>>, <<None, Some(100)>>,
     <<Some(10), Some(0)>>, <<Some(0), Some(100)>>, <<Some(10), Some(100)>>}

EconomicProductions == {Seasonal(12, 0, s) : s \in Levels} \cup InvalidVectors
EconomicConsumptions ==
    {Seasonal(12, w, 100) : w \in Levels}
    \cup {[Seasonal(12, 100, 100) EXCEPT ![1] = 0 - 100]}

EconomicArgs(call_name) ==
    IF call_name = "calculate_complete_economic_analysis"
    THEN {[pv_power_kwp |-> k,
           pv_production_annual |-> SumSeq(p), pv_production_monthly |-> p,
           consumption_annual |-> SumSeq(c), consumption_monthly |-> c,
           bess_capacity_kwh |-> b[1], bess_annual_throughput |-> None,
           bess_self_consumption_increase |-> b[2], economic_params |-> e] :
            k \in {0, 1}, p \in EconomicProductions, c \in EconomicConsumptions,
            b \in BessInputs, e \in EconomicParamSets}
    ELSE {[pv_power_kwp |-> 1,
           pv_production_annual |-> SumSeq(p), pv_production_monthly |-> p,
           consumption_monthly |-> c, economic_params |-> e] :
            p \in Vectors, c \in Vectors,
            e \in {Horizon(MaxYears), [Horizon(MaxYears) EXCEPT !.pv_capex_per_kwp = 0]}}

EconomicCalls == {"calculate_complete_economic_analysis", "_calculate_pv_only_scenario"}

\* an invocation of one of the operations of calls, on arguments drawn
\* from its input set
InitCalls(calls) ==
    /\ call \in calls
    /\ args \in (IF call \in EconomicCalls THEN EconomicArgs(call) ELSE BessArgs(call))
    /\ pc = "start"
    /\ loc = NoLocals
    /\ ret = NoReturn

\* the public sizing operation and the baseline it starts with
InitSizing == InitCalls({"calculate_optimal_bess", "_calculate_baseline_scenario"})
NextSizing == CallCalculateOptimalBess \/ CallCalculateBaselineScenario
SpecSizing == InitSizing /\ [][NextSizing]_vars

\* the daily dispatch simulation
InitDispatch == InitCalls({"_calculate_bess_scenario"})
NextDispatch == CallCalculateBessScenario
SpecDispatch == InitDispatch /\ [][NextDispatch]_vars

\* the capacity grid search
InitSearch == InitCalls({"_optimize_bess_capacity"})
NextSearch == OptimizeBegin \/ OptimizeIterate \/ OptimizeReturn
SpecSearch == InitSearch /\ [][NextSearch]_vars

\* the no-battery baseline of the two engines
InitBaseline == InitCalls({"_calculate_baseline_scenario", "_calculate_pv_only_scenario"})
NextBaseline == CallCalculateBaselineScenario \/ CallCalculatePvOnlyScenario
SpecBaseline == InitBaseline /\ [][NextBaseline]_vars

\* the economic evaluation
InitEvaluate == InitCalls({"calculate_complete_economic_analysis"})
NextEvaluate == CallCalculateCompleteEconomicAnalysis
SpecEvaluate == InitEvaluate /\ [][NextEvaluate]_vars

---------------------------------------------------------------------------
(* Direct calls of single methods *)

\* an invocation of the operation name on arguments drawn from inputs
InitOn(name, inputs) ==
    /\ call = name
    /\ args \in inputs
    /\ pc = "start"
    /\ loc = NoLocals
    /\ ret = NoReturn

\* the sequences over values of 1 .. n entries
SeqsUpTo(values, n) == UNION {[1..k -> values] : k \in 1..n}

---------------------------------------------------------------------------
(* _calculate_technical_metrics.  The capacity and the daily throughput    *)
(* are in kWh, dod in percent, degradation_annual and the capacity         *)
(* retention in per mille; the cycle counts are quotients.                 *)

MetricsYears == 20
DaysPerYear == 365
\* min(0.8, ...): at most 80% of the capacity degrades
MaxDegradation == 800

\* the daily cycles without the test of usable_capacity
DailyCyclesUnguarded(usable_capacity, daily_throughput) ==
    Divide(daily_throughput * 100, 2 * usable_capacity)

\* daily_throughput / (2 * usable_capacity) if usable_capacity > 0 else 0,
\* usable_capacity being in percent of a kWh
DailyCycles(usable_capacity, daily_throughput) ==
    IF usable_capacity > 0
    THEN Divide(daily_throughput * 100, 2 * usable_capacity)
    ELSE [status |-> "ok", value |-> Quotient(0, 1)]

\* the retention without the cap of the degradation
CapacityRetentionUncapped(degradation_annual) ==
    PerMille - degradation_annual * MetricsYears

\* 1 - min(0.8, degradation_annual * 20)
CapacityRetention(degradation_annual) ==
    PerMille - Min(MaxDegradation, degradation_annual * MetricsYears)

TechnicalMetrics(daily_cycles, bess_params) ==
    IF daily_cycles.status # "ok" THEN daily_cycles
    ELSE [status |-> "ok",
          daily_cycles |-> daily_cycles.value,
          total_cycles_20_years |->
              Quotient(daily_cycles.value.num * DaysPerYear * MetricsYears,
                       daily_cycles.value.den),
          capacity_retention_20_years |->
              CapacityRetention(bess_params.degradation_annual)]

CalculateTechnicalMetrics(bess_capacity, daily_throughput, bess_params) ==
    TechnicalMetrics(DailyCycles(bess_capacity * bess_params.dod, daily_throughput),
                     bess_params)

CallCalculateTechnicalMetrics ==
    /\ call = "_calculate_technical_metrics"
    /\ pc = "start"
    /\ ret' = CalculateTechnicalMetrics(args.bess_capacity, args.daily_throughput,
                                        args.bess_params)
    /\ pc' = "done"
    /\ UNCHANGED <<call, args, loc>>

\* capacities (a negative one included), depths of discharge from 0 to
\* 100%, daily throughputs, and degradations from 0 to 10000% per year
MetricsCapacities == {0 - 10, 0, 10, 100}
MetricsDods == {0, 5, 80, 100}
MetricsThroughputs == {0, 5, 16, 200}
MetricsDegradations == {0, 20, 40, 41, 50, 1000, 100000}
MetricsArgs ==
    {[bess_capacity |-> c, daily_throughput |-> t,
      bess_params |-> [dod |-> d, degradation_annual |-> g]] :
        c \in MetricsCapacities, t \in MetricsThroughputs,
        d \in MetricsDods, g \in MetricsDegradations}

InitMetrics == InitOn("_calculate_technical_metrics", MetricsArgs)
NextMetrics == CallCalculateTechnicalMetrics
SpecMetrics == InitMetrics /\ [][NextMetrics]_vars

---------------------------------------------------------------------------
(* The primitives of the economic engine *)

CallCalculatePayback ==
    /\ call = "_calculate_payback"
    /\ pc = "start"
    /\ ret' = CalculatePayback(args.initial_investment, args.cash_flows)
    /\ pc' = "done"
    /\ UNCHANGED <<call, args, loc>>

\* investments and yearly cash flows, in euro
PaybackInvestments == {0, 100, 200}
PaybackFlows == {0 - 100, 0, 50, 100, 200}
PaybackArgs ==
    {[initial_investment |-> v, cash_flows |-> cfs] :
        v \in PaybackInvestments, cfs \in SeqsUpTo(PaybackFlows, MaxYears)}

InitPayback == InitOn("_calculate_payback", PaybackArgs)
NextPayback == CallCalculatePayback
SpecPayback == InitPayback /\ [][NextPayback]_vars

\* _calculate_irr step by step; loc holds the state of the loop.
\* The initial estimate of line 469.
IrrBegin ==
    /\ call = "_calculate_irr"
    /\ pc = "start"
    /\ loc' = IrrStart
    /\ pc' = "irr_loop"
    /\ UNCHANGED <<call, args, ret>>

\* one pass of the loop of lines 471-486
IrrIteration ==
    /\ call = "_calculate_irr"
    /\ pc = "irr_loop"
    /\ loc.kind = "next" /\ loc.iterations < IrrIterations
    /\ loc' = IrrPass(args.cash_flows, loc)
    /\ UNCHANGED <<call, args, pc, ret>>

\* the return of line 476, or the one of line 488 after a break or after
\* the last pass
IrrReturn ==
    /\ call = "_calculate_irr"
    /\ pc = "irr_loop"
    /\ loc.kind # "next" \/ loc.iterations >= IrrIterations
    /\ ret' = [status |-> "ok", value |-> IrrResult(loc)]
    /\ pc' = "done"
    /\ UNCHANGED <<call, args, loc>>

\* cash-flow series in euro: an outlay or nothing in year 0, then returns,
\* losses, nothing, or amounts far below a cent
IrrOutlays == {Float(0 - 100, 0), Float(0 - 1, 0), Float(0, 0)}
IrrFlows == {Float(0 - 10, 0), Float(0, 0), Float(60, 0), Float(1, 0 - 5), Float(1, 0 - 9)}
IrrArgs ==
    {[cash_flows |-> <<first>> \o rest] :
        first \in IrrOutlays, rest \in SeqsUpTo(IrrFlows, MaxYears - 1)}

InitIrr == InitOn("_calculate_irr", IrrArgs)
NextIrr == IrrBegin \/ IrrIteration \/ IrrReturn
SpecIrr == InitIrr /\ [][NextIrr]_vars

\* _calculate_npv(cash_flows, discount_rate)
CallCalculateNpv ==
    /\ call = "_calculate_npv"
    /\ pc = "start"
    /\ ret' = [status |-> "ok",
               value  |-> CalculateNpv(args.cash_flows, args.discount_rate)]
    /\ pc' = "done"
    /\ UNCHANGED <<call, args, loc>>

\* yearly cash flows in cent, and discount rates in per mille: -50%, 0,
\* 5%, 5.1% and 100%
NpvFlows == {0 - 100, 0, 1, 20000}
NpvRates == {0 - 500, 0, 50, 51, 1000}
NpvArgs ==
    {[cash_flows |-> cfs, discount_rate |-> r] :
        cfs \in SeqsUpTo(NpvFlows, MaxYears + 1), r \in NpvRates}

InitNpv == InitOn("_calculate_npv", NpvArgs)
NextNpv == CallCalculateNpv
SpecNpv == InitNpv /\ [][NextNpv]_vars

\* _calculate_sensitivity_analysis with its objects: base_params is the
\* caller's EconomicParameters, modified_params the object of the current
\* iteration, sensitivity_results the dict being filled.
SensitivityOrder == <<"electricity_price", "pv_capex", "bess_capex", "wacc">>

SensitivityStart(economic_params) ==
    [base_params |-> economic_params,
     modified_params |-> economic_params,
     sensitivity_results |-> <<>>]

\* the setattr applied to the caller's object: modified_params is
\* base_params itself
SensitivityStepAliased(heap, param_attr, variation) ==
    [heap EXCEPT !.base_params = ModifiedParams(heap.base_params, param_attr, variation),
                 !.modified_params = ModifiedParams(heap.base_params, param_attr, variation)]

\* lines 407-409: modified_params is a new object built from the fields of
\* base_params, and the setattr changes that object
SensitivityStep(heap, param_attr, variation) ==
    [heap EXCEPT !.modified_params = ModifiedParams(heap.base_params, param_attr, variation)]

\* lines 404 and 412-424: the entry of param_name and variation
SensitivityEntry(heap, param_name, variation, pv_power_kwp, pv_production_annual, bess_capacity_kwh) ==
    LET results == heap.sensitivity_results
        entries == IF param_name \in DOMAIN results /\ variation # Variations[1]
                   THEN results[param_name] ELSE <<>>
        npv     == SensitivityNpv(pv_power_kwp, pv_production_annual,
                                  bess_capacity_kwh, heap.modified_params)
    IN  [heap EXCEPT !.sensitivity_results =
            [q \in DOMAIN results \cup {param_name} |->
                IF q = param_name THEN (VariationLabel(variation) :> npv) @@ entries
                ELSE results[q]]]

\* the two nested loops from the n-th of their iterations on
RECURSIVE SensitivityLoop(_, _, _, _, _)
SensitivityLoop(heap, n, pv_power_kwp, pv_production_annual, bess_capacity_kwh) ==
    IF n > Len(SensitivityOrder) * Len(Variations) THEN heap
    ELSE LET param_name == SensitivityOrder[((n - 1) \div Len(Variations)) + 1]
             variation  == Variations[((n - 1) % Len(Variations)) + 1]
         IN  SensitivityLoop(
                 SensitivityEntry(
                     SensitivityStep(heap, SensitivityParams[param_name], variation),
                     param_name, variation, pv_power_kwp, pv_production_annual,
                     bess_capacity_kwh),
                 n + 1, pv_power_kwp, pv_production_annual, bess_capacity_kwh)

\* the dict returned, and in loc the caller's object after the call
SensitivityOutcome(heap) ==
    [ret |-> [status |-> "ok", value |-> heap.sensitivity_results],
     loc |-> [economic_params |-> heap.base_params]]

CallCalculateSensitivityAnalysis ==
    /\ call = "_calculate_sensitivity_analysis"
    /\ pc = "start"
    /\ \E outcome \in {SensitivityOutcome(
                          SensitivityLoop(SensitivityStart(args.economic_params), 1,
                              args.pv_power_kwp, args.pv_production_annual,
                              args.bess_capacity_kwh))} :
          /\ ret' = outcome.ret
          /\ loc' = outcome.loc
    /\ pc' = "done"
    /\ UNCHANGED <<call, args>>

SensitivityArgs ==
    {[pv_power_kwp |-> k, pv_production_annual |-> p, consumption_annual |-> 1200,
      bess_capacity_kwh |-> b, economic_params |-> e] :
        k \in {0, 1, 2}, p \in {0, 600, 1200}, b \in {0, 10}, e \in EconomicParamSets}

InitSensitivity == InitOn("_calculate_sensitivity_analysis", SensitivityArgs)
NextSensitivity == CallCalculateSensitivityAnalysis
SpecSensitivity == InitSensitivity /\ [][NextSensitivity]_vars

---------------------------------------------------------------------------
(* Invocations running at the same time on one calculator of each engine.  *)
(* Neither class has an attribute besides its logger, and no method writes *)
(* one: call, args, pc, loc and ret hold one entry per invocation, loc[t]   *)
(* being the frame of the locals of invocation t.                          *)

Threads == 1..MaxThreads

\* the locals kept in one place for all invocations
StoreFrameShared(frames, t, locals) == [u \in DOMAIN frames |-> locals]

\* the assignment of the locals pv_only_results, pv_bess_results and
\* incremental_results in the frame of invocation t
StoreFrame(frames, t, locals) == [frames EXCEPT ![t] = locals]

\* lines 113-148 of calculate_complete_economic_analysis in invocation t
ThreadEvaluateScenarios(t) ==
    /\ call[t] = "calculate_complete_economic_analysis"
    /\ pc[t] = "start"
    /\ \E scenarios \in {EconomicScenarios(args[t].pv_power_kwp,
                             args[t].pv_production_annual, args[t].pv_production_monthly,
                             args[t].consumption_monthly, args[t].bess_capacity_kwh,
                             args[t].bess_self_consumption_increase,
                             args[t].economic_params)} :
          IF scenarios.status # "ok"
          THEN /\ ret' = [ret EXCEPT ![t] = scenarios]
               /\ pc' = [pc EXCEPT ![t] = "done"]
               /\ UNCHANGED loc
          ELSE /\ loc' = StoreFrame(loc, t, scenarios)
               /\ pc' = [pc EXCEPT ![t] = "scenarios"]
               /\ UNCHANGED ret
    /\ UNCHANGED <<call, args>>

\* lines 150-197 of calculate_complete_economic_analysis in invocation t
ThreadEvaluateResults(t) ==
    /\ pc[t] = "scenarios"
    /\ ret' = [ret EXCEPT ![t] =
                  EconomicResults(loc[t], args[t].pv_power_kwp,
                      args[t].pv_production_annual, args[t].consumption_annual,
                      args[t].bess_capacity_kwh, args[t].economic_params)]
    /\ pc' = [pc EXCEPT ![t] = "done"]
    /\ UNCHANGED <<call, args, loc>>

\* calculate_optimal_bess in invocation t
ThreadSizing(t) ==
    /\ call[t] = "calculate_optimal_bess"
    /\ pc[t] = "start"
    /\ ret' = [ret EXCEPT ![t] =
                  CalculateOptimalBess(args[t].pv_production,
                      args[t].consumption_profile, args[t].bess_params)]
    /\ pc' = [pc EXCEPT ![t] = "done"]
    /\ UNCHANGED <<call, args, loc>>

\* _calculate_baseline_scenario in invocation t
ThreadBaseline(t) ==
    /\ call[t] = "_calculate_baseline_scenario"
    /\ pc[t] = "start"
    /\ ret' = [ret EXCEPT ![t] =
                  CalculateBaselineScenario(args[t].pv_production,
                      args[t].consumption_profile.monthly_kwh,
                      args[t].electricity_price, args[t].feed_in_tariff)]
    /\ pc' = [pc EXCEPT ![t] = "done"]
    /\ UNCHANGED <<call, args, loc>>

\* the arguments of the invocations: an evaluation with a BESS, one
\* without, one of a plant that costs nothing; a sizing; a baseline
ThreadArgs(call_name) ==
    IF call_name = "calculate_complete_economic_analysis"
    THEN {[pv_power_kwp |-> 1,
           pv_production_annual |-> 1200,
           pv_production_monthly |-> Seasonal(12, 0, 200),
           consumption_annual |-> 1200,
           consumption_monthly |-> Seasonal(12, 100, 100),
           bess_capacity_kwh |-> x[1], bess_annual_throughput |-> None,
           bess_self_consumption_increase |-> x[2], economic_params |-> x[3]] :
            x \in {<<Some(10), Some(100), Horizon(1)>>,
                   <<None, None, Horizon(1)>>,
                   <<None, None, [Horizon(1) EXCEPT !.pv_capex_per_kwp = 0]>>}}
    ELSE IF call_name = "calculate_optimal_bess"
    THEN {[pv_production |-> Seasonal(12, 0, 200),
           consumption_profile |-> Profile(Seasonal(12, 100, 100)),
           bess_params |-> BessParams(80, 100, 5, 1)]}
    ELSE {[pv_production |-> Seasonal(12, 0, 200),
           consumption_profile |-> Profile(Seasonal(12, 100, 100)),
           electricity_price |-> 20, feed_in_tariff |-> 5]}

ThreadCalls ==
    {"calculate_complete_economic_analysis", "calculate_optimal_bess",
     "_calculate_baseline_scenario"}

InitConcurrent ==
    /\ call \in [Threads -> ThreadCalls]
    /\ args \in [Threads -> UNION {ThreadArgs(c) : c \in ThreadCalls}]
    /\ \A t \in Threads : args[t] \in ThreadArgs(call[t])
    /\ pc = [t \in Threads |-> "start"]
    /\ loc = [t \in Threads |-> NoLocals]
    /\ ret = [t \in Threads |-> NoReturn]

NextConcurrent ==
    \E t \in Threads :
        \/ ThreadEvaluateScenarios(t)
        \/ ThreadEvaluateResults(t)
        \/ ThreadSizing(t)
        \/ ThreadBaseline(t)

SpecConcurrent == InitConcurrent /\ [][NextConcurrent]_vars

---------------------------------------------------------------------------
(* The workflow of the projects (src/workflow_manager.py, the routes of    *)
(* src/workflow.py, the Project model of src/project.py).                  *)
(*                                                                         *)
(* loc holds the stored project and the clock; call, args and ret hold the *)
(* last operation, its arguments with the project as it was when the       *)
(* operation began, and its reply.  A dict is a record; an Optional is     *)
(* None or Some(v); the notes are the sequence of the lines appended.      *)

\* the values of the enum ProjectStatus, in the order of their definition
ProjectStatus ==
    <<"bozza", "da_analizzare", "in_analisi", "in_revisione", "completato",
      "archiviato">>

ProjectStatusValues == {ProjectStatus[i] : i \in 1..Len(ProjectStatus)}

\* the column default of Project.status
ProjectDefaultStatus == "Bozza"

\* how many status changes a behaviour records
MaxChanges == 2

WorkflowTransition(from_status, to_status, condition_func, auto_trigger) ==
    [from_status |-> from_status, to_status |-> to_status,
     condition_func |-> condition_func, auto_trigger |-> auto_trigger]

\* self.transitions
SetupTransitions ==
    <<WorkflowTransition("bozza", "da_analizzare", Some("_has_basic_data"), TRUE),
      WorkflowTransition("da_analizzare", "in_analisi", Some("_has_geometry_data"), TRUE),
      WorkflowTransition("in_analisi", "in_revisione", Some("_has_pvgis_data"), TRUE),
      WorkflowTransition("in_revisione", "completato", Some("_has_economic_analysis"), TRUE),
      WorkflowTransition("completato", "archiviato", None, FALSE),
      WorkflowTransition("archiviato", "completato", None, FALSE),
      WorkflowTransition("in_revisione", "in_analisi", None, FALSE),
      WorkflowTransition("in_analisi", "da_analizzare", None, FALSE)>>

\* the truth value of name and address and surface_area and surface_area > 0
HasBasicData(project) ==
    /\ project.name # ""
    /\ project.address # ""
    /\ project.surface_area # 0
    /\ project.surface_area > 0

HasGeometryData(project) ==
    /\ project.geometry_data # None
    /\ "potenza_installabile_kwp" \in DOMAIN project.geometry_data[1]
    /\ project.geometry_data[1].potenza_installabile_kwp > 0

HasPvgisData(project) ==
    /\ project.pvgis_data # None
    /\ "produzione_annuale_kwh" \in DOMAIN project.pvgis_data[1]
    /\ project.pvgis_data[1].produzione_annuale_kwh > 0

HasEconomicAnalysis(project) ==
    /\ project.economic_data # None
    /\ "pv_only_results" \in DOMAIN project.economic_data[1]
    /\ "npv" \in DOMAIN project.economic_data[1].pv_only_results

\* transition.condition_func(project)
ConditionFunc(transition, project) ==
    LET name == transition.condition_func[1]
    IN  CASE name = "_has_basic_data"        -> HasBasicData(project)
          [] name = "_has_geometry_data"     -> HasGeometryData(project)
          [] name = "_has_pvgis_data"        -> HasPvgisData(project)
          [] name = "_has_economic_analysis" -> HasEconomicAnalysis(project)

\* the indices of the transitions that satisfy Test, in the order of the list
Matching(Test(_)) == {i \in 1..Len(SetupTransitions) : Test(SetupTransitions[i])}

\* the lowest element of a non-empty set of indices: the first match of a
\* for loop
First(indices) == CHOOSE i \in indices : \A j \in indices : i <= j

\* (the test of get_next_status without auto_trigger and the condition)
IsStepFrom(transition, current_status, project) ==
    transition.from_status = current_status

\* the test of the loop of get_next_status
IsAutomaticStep(transition, current_status, project) ==
    /\ transition.from_status = current_status
    /\ transition.auto_trigger
    /\ transition.condition_func # None
    /\ ConditionFunc(transition, project)

\* Optional[ProjectStatus], or the ValueError of ProjectStatus(project.status)
GetNextStatus(project) ==
    IF project.status \notin ProjectStatusValues THEN Raise("ValueError")
    ELSE LET found == Matching(LAMBDA t : IsAutomaticStep(t, project.status, project))
         IN  [status |-> "ok",
              value  |-> IF found = {} THEN None
                         ELSE Some(SetupTransitions[First(found)].to_status)]

\* (the decision of can_transition_to with no test of the role)
TransitionGrantedAnyRole(transition, project, user_role) ==
    IF transition.auto_trigger /\ transition.condition_func # None
    THEN ConditionFunc(transition, project)
    ELSE TRUE

\* the decision of can_transition_to on the transition found
TransitionGranted(transition, project, user_role) ==
    IF transition.auto_trigger /\ transition.condition_func # None
    THEN ConditionFunc(transition, project)
    ELSE IF ~transition.auto_trigger THEN user_role = "admin"
    ELSE TRUE

CanTransitionTo(project, target_status, user_role) ==
    IF project.status \notin ProjectStatusValues \/ target_status \notin ProjectStatusValues
    THEN Raise("ValueError")
    ELSE LET found == Matching(LAMBDA t : /\ t.from_status = project.status
                                          /\ t.to_status = target_status)
         IN  [status |-> "ok",
              value  |-> IF found = {} THEN FALSE
                         ELSE TransitionGranted(SetupTransitions[First(found)],
                                                project, user_role)]

\* the line appended to the notes
Note(by, old_status, new_status) ==
    [by |-> by, old_status |-> old_status, new_status |-> new_status]

\* if not project.notes: project.notes = ""; project.notes += line
AppendNote(notes, line) ==
    Some(Append(IF notes = None THEN <<>> ELSE notes[1], line))

\* the reply and the project update_project_status leaves
UpdateWith(next_status, project, now) ==
    IF next_status.status # "ok" THEN [ret |-> next_status, project |-> project]
    ELSE IF next_status.value = None
    THEN [ret |-> [status |-> "ok", value |-> FALSE], project |-> project]
    ELSE [ret |-> [status |-> "ok", value |-> TRUE],
          project |-> [project EXCEPT
              !.status = next_status.value[1],
              !.last_updated = Some(now),
              !.notes = AppendNote(@, Note("automaticamente", project.status,
                                           next_status.value[1]))]]

UpdateProjectStatus(project, user_role, now) ==
    UpdateWith(GetNextStatus(project), project, now)

\* the order of the main workflow and the percentage of each position
WorkflowOrder == <<"bozza", "da_analizzare", "in_analisi", "in_revisione", "completato">>

ProgressPercentage(current_status) ==
    IF \E i \in 1..Len(WorkflowOrder) : WorkflowOrder[i] = current_status
    THEN LET current_index == (CHOOSE i \in 1..Len(WorkflowOrder) :
                                   WorkflowOrder[i] = current_status) - 1
         IN  (current_index * 100) \div (Len(WorkflowOrder) - 1)
    ELSE IF current_status = "archiviato" THEN 100 ELSE 0

GetWorkflowProgress(project) ==
    IF project.status \notin ProjectStatusValues THEN Raise("ValueError")
    ELSE [status |-> "ok",
          current_status |-> project.status,
          progress_percentage |-> ProgressPercentage(project.status),
          phases_completed |->
              [basic_data |-> HasBasicData(project),
               geometry   |-> HasGeometryData(project),
               pvgis      |-> HasPvgisData(project),
               economic   |-> HasEconomicAnalysis(project)],
          next_possible_status |-> GetNextStatus(project).value]

\* the three branches of the loop of get_available_transitions
TransitionListed(transition, project, user_role) ==
    IF transition.auto_trigger /\ transition.condition_func # None
    THEN ConditionFunc(transition, project)
    ELSE IF ~transition.auto_trigger /\ user_role = "admin" THEN TRUE
    ELSE transition.condition_func = None

RECURSIVE AvailableFrom(_, _, _)
AvailableFrom(i, project, user_role) ==
    IF i > Len(SetupTransitions) THEN <<>>
    ELSE (IF /\ SetupTransitions[i].from_status = project.status
             /\ TransitionListed(SetupTransitions[i], project, user_role)
          THEN <<SetupTransitions[i].to_status>> ELSE <<>>)
         \o AvailableFrom(i + 1, project, user_role)

GetAvailableTransitions(project, user_role) ==
    IF project.status \notin ProjectStatusValues THEN Raise("ValueError")
    ELSE [status |-> "ok", value |-> AvailableFrom(1, project, user_role)]

\* the route PUT /projects/<id>/workflow/status for the owner of the
\* project or an admin: the reply and the project it leaves.  An exception
\* is answered with status 500 after a rollback.
ManualUpdateWith(allowed, project, new_status, user_role, now) ==
    IF allowed.status # "ok" THEN [ret |-> [status |-> "ok", code |-> 500], project |-> project]
    ELSE IF ~allowed.value THEN [ret |-> [status |-> "ok", code |-> 400], project |-> project]
    ELSE [ret |-> [status |-> "ok", code |-> 200],
          project |-> [project EXCEPT
              !.status = new_status,
              !.updated_at = Some(now),
              !.notes = AppendNote(@, Note("manualmente", project.status, new_status))]]

RouteUpdateProjectStatus(project, new_status, user_role, now) ==
    IF new_status = "" THEN [ret |-> [status |-> "ok", code |-> 400], project |-> project]
    ELSE ManualUpdateWith(CanTransitionTo(project, new_status, user_role),
                          project, new_status, user_role, now)

\* the roles and the target statuses of the requests
UserRoles == {"user", "admin"}
TargetStatuses == ProjectStatusValues \cup {"", "Archiviato"}

\* a call that reads the project
Query(name, request, reply) ==
    /\ call' = name
    /\ args' = request
    /\ ret' = reply
    /\ pc' = "done"
    /\ UNCHANGED loc

\* a call that may write the project and reads the clock when it does
Command(name, request, outcome) ==
    /\ call' = name
    /\ args' = request
    /\ ret' = outcome.ret
    /\ pc' = "done"
    /\ loc' = [project |-> outcome.project,
               now |-> IF outcome.project # loc.project THEN loc.now + 1 ELSE loc.now]

CallGetNextStatus ==
    Query("get_next_status", [project |-> loc.project], GetNextStatus(loc.project))

CallCanTransitionTo ==
    \E target_status \in TargetStatuses \ {""}, user_role \in UserRoles :
        Query("can_transition_to",
              [project |-> loc.project, target_status |-> target_status,
               user_role |-> user_role],
              CanTransitionTo(loc.project, target_status, user_role))

CallGetWorkflowProgress ==
    Query("get_workflow_progress", [project |-> loc.project],
          GetWorkflowProgress(loc.project))

CallGetAvailableTransitions ==
    \E user_role \in UserRoles :
        Query("get_available_transitions",
              [project |-> loc.project, user_role |-> user_role],
              GetAvailableTransitions(loc.project, user_role))

CallUpdateProjectStatus ==
    /\ loc.now < MaxChanges
    /\ \E user_role \in UserRoles :
          Command("update_project_status",
                  [project |-> loc.project, user_role |-> user_role],
                  UpdateProjectStatus(loc.project, user_role, loc.now + 1))

CallRouteUpdateProjectStatus ==
    /\ loc.now < MaxChanges
    /\ \E new_status \in TargetStatuses, user_role \in UserRoles :
          Command("workflow.update_project_status",
                  [project |-> loc.project, new_status |-> new_status,
                   user_role |-> user_role],
                  RouteUpdateProjectStatus(loc.project, new_status, user_role,
                                           loc.now + 1))

\* the stored projects: a project created with the column default or with
\* one of the workflow's statuses, with more or less of its data present
Projects ==
    {[id |-> 1, name |-> "Test Project", address |-> "Via Test 123",
      surface_area |-> s, status |-> st, geometry_data |-> g, pvgis_data |-> p,
      economic_data |-> e, notes |-> None, last_updated |-> None,
      updated_at |-> None] :
        s \in {0, 2500},
        st \in ProjectStatusValues \cup {ProjectDefaultStatus},
        g \in {None, Some([potenza_installabile_kwp |-> 0]),
               Some([potenza_installabile_kwp |-> 228])},
        p \in {None, Some([produzione_annuale_kwh |-> 164830])},
        e \in {None, Some([pv_only_results |-> [irr |-> 5]]),
               Some([pv_only_results |-> [npv |-> 113823]])}}

InitWorkflow ==
    /\ call = "__init__"
    /\ args = NoLocals
    /\ pc = "start"
    /\ loc \in {[project |-> p, now |-> 0] : p \in Projects}
    /\ ret = NoReturn

NextWorkflow ==
    \/ CallGetNextStatus
    \/ CallCanTransitionTo
    \/ CallGetWorkflowProgress
    \/ CallGetAvailableTransitions
    \/ CallUpdateProjectStatus
    \/ CallRouteUpdateProjectStatus

SpecWorkflow == InitWorkflow /\ [][NextWorkflow]_vars

---------------------------------------------------------------------------
(* The layout calculator (src/geometry_calculator.py).  Lengths are in mm, *)
(* the surface in whole square metres with a whole side, the tilt in whole *)
(* degrees, sines and cosines in 1/TrigScale, the installable power in     *)
(* hundredths of a kWp as round(..., 2) leaves it.                         *)

\* self.default_module
DefaultModule ==
    [potenza_wp |-> 495, lunghezza_mm |-> 2278, larghezza_mm |-> 1134,
     nome |-> "LONGI LR7-54HVH-495M Hi-MO X10 Scientist"]

\* self.min_distance_reduction_factor, in percent
MinDistanceReductionPercent == 10

TrigScale == 10000
\* math.sin and math.cos of the tilts of the model, math.tan of the default
\* angolo_solare_delta of 23.5 degrees
Tilts == {0, 10, 30}
Sin(degrees) == CASE degrees = 0 -> 0 [] degrees = 10 -> 1736 [] degrees = 30 -> 5000
Cos(degrees) == CASE degrees = 0 -> 10000 [] degrees = 10 -> 9848 [] degrees = 30 -> 8660
TanSolarDelta == 4348

\* 80 cm between two V
DistanzaManutenzione == 800

\* the largest side of a surface, in metres
MaxSide == 12

\* math.sqrt of a surface with a whole side, in mm
Sqrt(superficie_mq) ==
    1000 * (CHOOSE n \in 0..(MaxSide + 1) : n * n = superficie_mq)

\* round(x, 2) of x = num / 1000, in hundredths; a tie goes to the even
\* neighbour
Round2(num) ==
    LET q == num \div 10
        r == num % 10
    IN  IF r > 5 \/ (r = 5 /\ q % 2 = 1) THEN q + 1 ELSE q

\* lato_lungo, lato_corto and the usable area, or what the square root and
\* the division raise
AreaUtile(superficie_mq, margine_metri) ==
    IF superficie_mq < 0 THEN Raise("ValueError")
    ELSE IF Sqrt(superficie_mq) = 0 THEN Raise("ZeroDivisionError")
    ELSE LET lato_lungo == Sqrt(superficie_mq)
             lato_corto == (superficie_mq * 1000 * 1000) \div lato_lungo
         IN  [status |-> "ok",
              area_utile_lunghezza |-> lato_lungo - 2 * margine_metri * 1000,
              area_utile_larghezza |-> lato_corto - 2 * margine_metri * 1000]

\* the dict returned when the margins leave no area
SuperficieInsufficiente ==
    [status |-> "ok",
     errore |-> "Superficie insufficiente considerando i margini",
     potenza_installabile_kwp |-> 0,
     numero_moduli |-> 0]

SouthLayout(area, superficie_mq, tilt_degrees, margine_metri, modulo_params) ==
    IF area.status # "ok" THEN area
    ELSE IF area.area_utile_lunghezza <= 0 \/ area.area_utile_larghezza <= 0
    THEN SuperficieInsufficiente
    ELSE
    LET d_min_teorica   == (modulo_params.lunghezza_mm * Sin(tilt_degrees)) \div TanSolarDelta
        d_min_effettiva == (d_min_teorica * (100 - MinDistanceReductionPercent)) \div 100
        spazio_per_fila == (modulo_params.lunghezza_mm * Cos(tilt_degrees)) \div TrigScale
                           + d_min_effettiva
        numero_file     == area.area_utile_lunghezza \div spazio_per_fila
        moduli_per_fila == area.area_utile_larghezza \div modulo_params.larghezza_mm
        numero_moduli_totale == numero_file * moduli_per_fila
    IN  [status |-> "ok",
         orientamento |-> "sud",
         potenza_installabile_kwp |-> Round2(numero_moduli_totale * modulo_params.potenza_wp),
         numero_moduli |-> numero_moduli_totale,
         numero_file |-> numero_file,
         moduli_per_fila |-> moduli_per_fila,
         distanza_tra_file_m |-> d_min_effettiva,
         distanza_teorica_m |-> d_min_teorica,
         fattore_riduzione_applicato |-> MinDistanceReductionPercent,
         modulo_utilizzato |-> modulo_params.nome,
         tilt_degrees |-> tilt_degrees,
         azimuth_degrees |-> 180,
         margine_metri |-> margine_metri]

CalculateSouthLayout(superficie_mq, tilt_degrees, margine_metri, modulo_params) ==
    SouthLayout(AreaUtile(superficie_mq, margine_metri), superficie_mq, tilt_degrees,
                margine_metri, modulo_params)

EastWestLayout(area, superficie_mq, tilt_degrees, margine_metri, modulo_params) ==
    IF area.status # "ok" THEN area
    ELSE IF area.area_utile_lunghezza <= 0 \/ area.area_utile_larghezza <= 0
    THEN SuperficieInsufficiente
    ELSE
    LET altezza_v    == (modulo_params.lunghezza_mm * Sin(tilt_degrees)) \div TrigScale
        larghezza_v  == (2 * modulo_params.lunghezza_mm * Cos(tilt_degrees)) \div TrigScale
        spazio_per_v == larghezza_v + DistanzaManutenzione
        numero_v     == area.area_utile_lunghezza \div spazio_per_v
        moduli_per_lato_v == area.area_utile_larghezza \div modulo_params.larghezza_mm
        moduli_per_v == moduli_per_lato_v * 2
        numero_moduli_totale == numero_v * moduli_per_v
    IN  [status |-> "ok",
         orientamento |-> "est_ovest",
         potenza_installabile_kwp |-> Round2(numero_moduli_totale * modulo_params.potenza_wp),
         numero_moduli |-> numero_moduli_totale,
         numero_moduli_est |-> numero_moduli_totale \div 2,
         numero_moduli_ovest |-> numero_moduli_totale \div 2,
         numero_v |-> numero_v,
         moduli_per_v |-> moduli_per_v,
         moduli_per_lato_v |-> moduli_per_lato_v,
         larghezza_v_m |-> larghezza_v,
         altezza_v_m |-> altezza_v,
         distanza_tra_v_m |-> DistanzaManutenzione,
         modulo_utilizzato |-> modulo_params.nome,
         tilt_degrees |-> tilt_degrees,
         azimuth_est_degrees |-> 90,
         azimuth_ovest_degrees |-> 270,
         margine_metri |-> margine_metri]

CalculateEastWestLayout(superficie_mq, tilt_degrees, margine_metri, modulo_params) ==
    EastWestLayout(AreaUtile(superficie_mq, margine_metri), superficie_mq, tilt_degrees,
                   margine_metri, modulo_params)

\* potenza_sud >= potenza_est_ovest
SouthIsOptimal(potenza_sud, potenza_est_ovest) == potenza_sud >= potenza_est_ovest

\* the comparison of the two layouts and the dict returned; the subscript
\* ['orientamento'] raises KeyError on a dict without that key
OptimalLayout(layout_sud, layout_est_ovest) ==
    IF layout_sud.status # "ok" THEN layout_sud
    ELSE IF layout_est_ovest.status # "ok" THEN layout_est_ovest
    ELSE
    LET potenza_sud       == layout_sud.potenza_installabile_kwp
        potenza_est_ovest == layout_est_ovest.potenza_installabile_kwp
        south             == SouthIsOptimal(potenza_sud, potenza_est_ovest)
        layout_ottimale   == IF south THEN layout_sud ELSE layout_est_ovest
    IN  IF "orientamento" \notin DOMAIN layout_ottimale THEN Raise("KeyError")
        ELSE [status |-> "ok",
              layout_ottimale    |-> layout_ottimale,
              layout_alternativo |-> IF south THEN layout_est_ovest ELSE layout_sud,
              confronto |->
                  [potenza_sud_kwp       |-> potenza_sud,
                   potenza_est_ovest_kwp |-> potenza_est_ovest,
                   differenza_kwp        |-> Abs(potenza_sud - potenza_est_ovest),
                   migliore              |-> layout_ottimale.orientamento]]

\* modulo_params None stands for the default module
CalculateOptimalLayout(superficie_mq, tilt_degrees, margine_metri, modulo_params) ==
    LET module == IF modulo_params = None THEN DefaultModule ELSE modulo_params[1]
    IN  OptimalLayout(
            CalculateSouthLayout(superficie_mq, tilt_degrees, margine_metri, module),
            CalculateEastWestLayout(superficie_mq, tilt_degrees, margine_metri, module))

CallCalculateOptimalLayout ==
    /\ call = "calculate_optimal_layout"
    /\ pc = "start"
    /\ ret' = CalculateOptimalLayout(args.superficie_mq, args.tilt_degrees,
                                     args.margine_metri, args.modulo_params)
    /\ pc' = "done"
    /\ UNCHANGED <<call, args, loc>>

\* surfaces with a side of 0 to MaxSide metres and one negative surface,
\* margins that leave an area or none, the default module and a module as
\* long as two V are wide
LayoutArgs ==
    {[superficie_mq |-> s, tilt_degrees |-> t, margine_metri |-> g, modulo_params |-> mp] :
        s \in {n * n : n \in 0..MaxSide} \cup {0 - 4},
        t \in Tilts,
        g \in {0, 1, 3},
        mp \in {None, Some([potenza_wp |-> 500, lunghezza_mm |-> 1000,
                            larghezza_mm |-> 1000, nome |-> "M"])}}

InitLayout == InitOn("calculate_optimal_layout", LayoutArgs)
NextLayout == CallCalculateOptimalLayout
SpecLayout == InitLayout /\ [][NextLayout]_vars

Returned(name) == call = name /\ pc = "done"

---------------------------------------------------------------------------
(* Claims about the BESS sizing engine *)

\* C1: for valid input (12 non-negative production values, 12 non-negative
\* consumption values) calculate_optimal_bess returns a BESSResults with
\* optimal_power_kw = optimal_capacity_kwh * c_rate, never an error.
C1_SizingCompletes ==
    (/\ Returned("calculate_optimal_bess")
     /\ IsValidVector(args.pv_production)
     /\ IsValidVector(args.consumption_profile.monthly_kwh))
    => /\ ret.status = "ok"
       /\ ret.optimal_power_kw * 100 = ret.optimal_capacity_kwh * args.bess_params.c_rate

\* the number of candidates from 10% to 200% of the average monthly
\* consumption in steps of 10% of the minimum
CandidateLimit ==
    ((MaxCapacityPercent - MinCapacityPercent) * 100)
        \div (MinCapacityPercent * StepPercent) + 1

\* C3: the grid search terminates for every consumption profile with 12
\* values >= 0 (the all-zero profile included) after a bounded number of
\* candidates: it never evaluates more candidates than the range holds.
C3_SearchEvaluatesBoundedCandidates ==
    (/\ call = "_optimize_bess_capacity" /\ pc # "start"
     /\ IsValidVector(args.consumption_profile.monthly_kwh)
     /\ IsValidVector(args.pv_production)
     /\ IsValidBessParams(args.bess_params))
    => Len(loc.evaluated) <= CandidateLimit

\* C4: the capacity the grid search returns has an NPV >= that of every
\* evaluated candidate, and is the lowest capacity with that NPV.
C4_SearchReturnsFirstBest ==
    (Returned("_optimize_bess_capacity") /\ ret.status = "ok")
    => LET e == loc.evaluated
       IN  \E i \in 1..Len(e) :
              /\ e[i].capacity = ret.optimal_capacity
              /\ \A j \in 1..Len(e) :
                    /\ e[j].npv <= e[i].npv
                    /\ e[j].npv = e[i].npv => e[i].capacity <= e[j].capacity

\* C4 witness: a search has returned after evaluating the whole range, and
\* two candidates share the highest NPV.
C4_Witness ==
    /\ Returned("_optimize_bess_capacity") /\ ret.status = "ok"
    /\ Len(loc.evaluated) = CandidateLimit
    /\ \E i, j \in 1..Len(loc.evaluated) :
          /\ i # j
          /\ loc.evaluated[i].npv = loc.best_npv
          /\ loc.evaluated[j].npv = loc.best_npv

\* C5: the annual benefit fed into a candidate's NPV is derived from its
\* simulated dispatch, so two candidates whose simulated net operating cost
\* (import cost minus export revenue) differs are fed different benefits.
C5_NpvReflectsDispatch ==
    (/\ call = "_optimize_bess_capacity" /\ pc # "start" /\ loc.evaluated # <<>>
     /\ IsValidBessParams(args.bess_params))
    => LET e == loc.evaluated
           n == Len(e)
       IN  \A j \in 1..n :
              e[j].annual_net_cost # e[n].annual_net_cost
              => e[j].annual_savings # e[n].annual_savings

\* what the dispatch of month i charges and discharges per day, from the
\* inputs of that month alone
MonthIsSurplus(i) == args.pv_production[i] > args.consumption_profile.monthly_kwh[i]
MonthFlow(i) ==
    (args.pv_production[i] - args.consumption_profile.monthly_kwh[i])
        * (DailyScale \div DaysInMonth[i])
MonthCharge(i) ==
    IF MonthIsSurplus(i)
    THEN (Min(MonthFlow(i), UsableCapacity(args.bess_capacity, args.bess_params))
            * args.bess_params.efficiency) \div 100
    ELSE 0
MonthDischarge(i) ==
    IF MonthIsSurplus(i) THEN 0
    ELSE Min(0 - MonthFlow(i), UsableCapacity(args.bess_capacity, args.bess_params))

\* C6: each month's throughput is (that month's charge + that month's
\* discharge) * days-in-month, a surplus month discharging 0 and a deficit
\* month charging 0: it does not depend on an earlier month.
C6_ThroughputOfTheMonth ==
    (/\ Returned("_calculate_bess_scenario") /\ ret.status = "ok"
     /\ IsValidVector(args.pv_production)
     /\ IsValidVector(args.consumption_profile.monthly_kwh)
     /\ IsValidBessParams(args.bess_params))
    => \A i \in 1..12 :
          ret.monthly_results[i].throughput
              = (MonthCharge(i) + MonthDischarge(i)) * DaysInMonth[i]

\* C7: a production or consumption vector that has not exactly 12 entries
\* or holds a negative value is rejected with an InvalidInputError.
C7_InvalidVectorsRejected ==
    (/\ call \in {"calculate_optimal_bess", "_calculate_baseline_scenario"}
     /\ pc = "done"
     /\ \/ ~IsValidVector(args.pv_production)
        \/ ~IsValidVector(args.consumption_profile.monthly_kwh))
    => ret.status = "InvalidInputError"

---------------------------------------------------------------------------
(* Claims about the no-battery baseline and the economic evaluation *)

\* energy conservation of one month, for non-negative production and
\* consumption
Conserved(month, production, consumption) ==
    (production >= 0 /\ consumption >= 0)
    => /\ month.self_consumption + month.grid_export = production
       /\ month.self_consumption + month.grid_import = consumption
       /\ month.self_consumption = Min(production, consumption)

\* C2: in the no-battery baseline of both engines (the BESS engine's
\* baseline and the economic PV-only scenario), for every month with
\* non-negative production and consumption, self_consumption + grid_export
\* = production, self_consumption + grid_import = consumption and
\* self_consumption = min(production, consumption).
C2_BaselineConservesEnergy ==
    /\ (Returned("_calculate_baseline_scenario") /\ ret.status = "ok")
       => \A i \in 1..12 :
             Conserved(ret.monthly[i], args.pv_production[i],
                       args.consumption_profile.monthly_kwh[i])
    /\ (Returned("_calculate_pv_only_scenario") /\ loc # NoLocals)
       => \A i \in 1..12 :
             Conserved(loc.monthly[i], args.pv_production_monthly[i],
                       args.consumption_monthly[i])

\* C2 witness: the PV-only scenario has returned for 12 non-negative
\* productions and consumptions with a month that exports and a month
\* that imports.
C2_Witness ==
    /\ Returned("_calculate_pv_only_scenario") /\ ret.status = "ok"
    /\ IsValidVector(args.pv_production_monthly)
    /\ IsValidVector(args.consumption_monthly)
    /\ \E i, j \in 1..12 :
          /\ loc.monthly[i].grid_export > 0 /\ loc.monthly[i].grid_import = 0
          /\ loc.monthly[j].grid_import > 0 /\ loc.monthly[j].grid_export = 0

\* valid input of the evaluation: positive power, vectors of 12
\* non-negative values, non-negative monetary rates
IsValidEvaluateInput(a) ==
    /\ a.pv_power_kwp > 0
    /\ IsValidVector(a.pv_production_monthly)
    /\ IsValidVector(a.consumption_monthly)
    /\ IsValidEconomicParams(a.economic_params)

\* C8: for invalid numeric input (a monthly vector of wrong length, a
\* negative production, consumption or price, a non-positive power) the
\* evaluation fails with an input-validation error and computes nothing.
C8_InvalidInputFailsFast ==
    (/\ Returned("calculate_complete_economic_analysis")
     /\ ~IsValidEvaluateInput(args))
    => ret.status = "InvalidInputError"

\* C9: when bess_capacity_kwh or bess_self_consumption_increase is absent,
\* the evaluation of valid input raises no error, its PV+BESS figures (npv,
\* irr, payback, capex, annual savings, cash flows) equal the PV-only
\* figures, and the incremental npv is 0, the incremental irr 0 and the
\* incremental payback infinity.
C9_AbsentBessFallsBack ==
    (/\ Returned("calculate_complete_economic_analysis")
     /\ IsValidEvaluateInput(args)
     /\ (args.bess_capacity_kwh = None \/ args.bess_self_consumption_increase = None))
    => /\ ret.status = "ok"
       /\ ret.pv_bess_npv = ret.pv_only_npv
       /\ ret.pv_bess_irr = ret.pv_only_irr
       /\ ret.pv_bess_payback = ret.pv_only_payback
       /\ ret.pv_bess_capex = ret.pv_only_capex
       /\ ret.pv_bess_annual_savings = ret.pv_only_annual_savings
       /\ ret.annual_cash_flows_pv_bess = ret.annual_cash_flows_pv
       /\ ret.bess_incremental_npv = 0
       /\ ret.bess_incremental_irr = Float(0, 0)
       /\ ret.bess_incremental_payback = Never

\* C10: whenever both bess_capacity_kwh and bess_self_consumption_increase
\* are supplied (values >= 0, a supplied 0 included), the PV+BESS capex the
\* evaluation reports is pv_power_kwp * pv_capex_per_kwp + bess_capacity_kwh
\* * bess_capex_per_kwh, and the PV+BESS opex is the PV opex plus the BESS
\* opex.
C10_SuppliedBessIsCosted ==
    (/\ Returned("calculate_complete_economic_analysis") /\ ret.status = "ok"
     /\ IsValidEvaluateInput(args)
     /\ args.bess_capacity_kwh # None /\ args.bess_self_consumption_increase # None)
    => LET bess_capex ==
               args.bess_capacity_kwh[1] * args.economic_params.bess_capex_per_kwh
       IN  /\ ret.pv_bess_capex
                 = args.pv_power_kwp * args.economic_params.pv_capex_per_kwp + bess_capex
           /\ loc.pv_bess_results.annual_opex
                 = loc.pv_only_results.annual_opex
                   + (bess_capex * args.economic_params.bess_opex_annual_percent)
                         \div PerMille

---------------------------------------------------------------------------
(* Claims about the primitives of the economic engine *)

\* the cumulative cash flow of the years 0 .. y (0 for y = -1)
RECURSIVE Cumulative(_, _)
Cumulative(cash_flows, y) ==
    IF y < 0 THEN 0 ELSE cash_flows[y + 1] + Cumulative(cash_flows, y - 1)

\* y is the first year index at which the cumulative cash flow reaches the
\* investment
IsRecoveryYear(initial_investment, cash_flows, y) ==
    /\ y \in 0..(Len(cash_flows) - 1)
    /\ Cumulative(cash_flows, y) >= initial_investment
    /\ \A z \in 0..(y - 1) : Cumulative(cash_flows, z) < initial_investment

\* C11: when y is the first year index at which the cumulative cash flow
\* reaches the initial investment, the payback returned is
\* y + (investment - cumulative before year y) / cash flow of year y, for
\* every y including y = 0, and so lies in [y, y + 1].
C11_PaybackInterpolates ==
    Returned("_calculate_payback")
    => \A y \in 0..(Len(args.cash_flows) - 1) :
          (/\ IsRecoveryYear(args.initial_investment, args.cash_flows, y)
           /\ args.cash_flows[y + 1] > 0)
          => /\ ret.status = "ok"
             /\ ~ret.value.inf
             /\ LET cf     == args.cash_flows[y + 1]
                    before == Cumulative(args.cash_flows, y - 1)
                IN  /\ ret.value.num * cf
                          = (y * cf + args.initial_investment - before) * ret.value.den
                    /\ ret.value.den > 0
                    /\ y * ret.value.den <= ret.value.num
                    /\ ret.value.num <= (y + 1) * ret.value.den

C13_EdgeCasesNeverRaise ==
    (/\ Returned("calculate_complete_economic_analysis")
     /\ args.pv_power_kwp >= 0
     /\ IsValidVector(args.pv_production_monthly)
     /\ IsValidVector(args.consumption_monthly)
     /\ IsValidEconomicParams(args.economic_params))
    => ret.status = "ok"

\* the passes the IRR loop has made
IrrPassesMade == loc.iterations + (IF loc.kind = "next" THEN 0 ELSE 1)

\* C14: when the IRR iteration has not converged (all 100 passes used, or
\* stopped on a near-flat derivative, without |npv| < 1e-6), _calculate_irr
\* raises nothing and returns 0.
C14_NonConvergenceReportsZero ==
    (Returned("_calculate_irr") /\ loc.kind # "return")
    => (ret.status = "ok" /\ ret.value = Float(0, 0))

\* C15: the IRR loop ends after at most 100 passes, the rate after every
\* update lies in [-0.99, 10], and the value returned is 0 or lies strictly
\* inside (-1, 10).
C15_IrrLoopIsBounded ==
    (call = "_calculate_irr" /\ pc # "start")
    => /\ IrrPassesMade <= IrrIterations
       /\ loc.iterations > 0
          => (~FLess(loc.rate, IrrMinRate) /\ ~FLess(IrrMaxRate, loc.rate))
       /\ pc = "done"
          => /\ ret.status = "ok"
             /\ \/ ret.value = Float(0, 0)
                \/ FLess(Float(0 - 1, 0), ret.value) /\ FLess(ret.value, IrrMaxRate)

\* a series of at least two entries, all positive
IsPositiveSeries(cash_flows) ==
    Len(cash_flows) >= 2 /\ \A i \in 1..Len(cash_flows) : cash_flows[i] > 0

\* C16: for every cash-flow series of at least two entries, all positive,
\* and every pair of discount rates -1 < r1 < r2, the NPV at r1 is greater
\* than the NPV at r2.
C16_NpvDecreasesInRate ==
    (/\ Returned("_calculate_npv")
     /\ IsPositiveSeries(args.cash_flows)
     /\ args.discount_rate > 0 - PerMille)
    => \A r2 \in NpvRates :
          r2 > args.discount_rate
          => ret.value > CalculateNpv(args.cash_flows, r2)

\* C16 witness: the NPV of a positive series has been computed at 5%, and it
\* is positive and greater than the one at 5.1%.
C16_Witness ==
    /\ Returned("_calculate_npv")
    /\ IsPositiveSeries(args.cash_flows)
    /\ args.discount_rate = 50
    /\ ret.value > 0
    /\ ret.value > CalculateNpv(args.cash_flows, 51)

---------------------------------------------------------------------------
(* Claims about the technical metrics of the BESS engine *)

\* C17: the capacity retention after 20 years is
\* 1 - min(0.8, degradation_annual * 20), and so never below 0.2 for any
\* degradation_annual >= 0.
C17_RetentionHasFloor ==
    (/\ Returned("_calculate_technical_metrics") /\ ret.status = "ok"
     /\ args.bess_params.degradation_annual >= 0)
    => /\ ret.capacity_retention_20_years
             = PerMille - Min(800, args.bess_params.degradation_annual * 20)
       /\ ret.capacity_retention_20_years >= 200

\* C17 witness: a retention of exactly 0.2 reported for a degradation of
\* 100% per year.
C17_Witness ==
    /\ Returned("_calculate_technical_metrics") /\ ret.status = "ok"
    /\ args.bess_params.degradation_annual = PerMille
    /\ ret.capacity_retention_20_years = 200

\* C18: for a capacity >= 0 and a DoD >= 0, a usable capacity of 0 gives
\* daily_cycles = 0 and total_cycles_20_years = 0 without a division error;
\* otherwise daily_cycles = daily_throughput / (2 * capacity * DoD).
C18_CyclesOfUsableCapacity ==
    (/\ Returned("_calculate_technical_metrics")
     /\ args.bess_capacity >= 0 /\ args.bess_params.dod >= 0)
    => /\ ret.status = "ok"
       /\ ret.daily_cycles.den > 0 /\ ret.total_cycles_20_years.den > 0
       /\ IF args.bess_capacity = 0 \/ args.bess_params.dod = 0
          THEN ret.daily_cycles.num = 0 /\ ret.total_cycles_20_years.num = 0
          ELSE ret.daily_cycles.num * 2 * args.bess_capacity * args.bess_params.dod
                  = args.daily_throughput * 100 * ret.daily_cycles.den

\* C18 witness: the metrics have returned zero cycles for a DoD of 0 with a
\* positive capacity and a positive throughput.
C18_Witness ==
    /\ Returned("_calculate_technical_metrics") /\ ret.status = "ok"
    /\ args.bess_params.dod = 0 /\ args.bess_capacity > 0
    /\ args.daily_throughput > 0
    /\ ret.daily_cycles.num = 0 /\ ret.total_cycles_20_years.num = 0

---------------------------------------------------------------------------
(* Claims about the sensitivity analysis *)

\* C19: the sensitivity analysis returns the four entries electricity_price,
\* pv_capex, bess_capex and wacc, each with the five labels of -20, -10, 0,
\* +10 and +20 percent; each NPV is the one of the parameters with only the
\* named one scaled (so the NPVs of 0% are the same in the four entries),
\* and the caller's EconomicParameters is unchanged after the call.
C19_SensitivityTable ==
    Returned("_calculate_sensitivity_analysis")
    => /\ ret.status = "ok"
       /\ DOMAIN ret.value = {"electricity_price", "pv_capex", "bess_capex", "wacc"}
       /\ \A p \in DOMAIN ret.value :
             /\ DOMAIN ret.value[p] = {"-20%", "-10%", "+0%", "+10%", "+20%"}
             /\ \A j \in 1..Len(Variations) :
                   ret.value[p][VariationLabel(Variations[j])]
                      = SensitivityNpv(args.pv_power_kwp, args.pv_production_annual,
                            args.bess_capacity_kwh,
                            ModifiedParams(args.economic_params, SensitivityParams[p],
                                           Variations[j]))
             /\ ret.value[p]["+0%"] = ret.value["wacc"]["+0%"]
       /\ loc.economic_params = args.economic_params

\* C19 witness: a table has been returned in which every parameter moves the
\* NPV: the entries of -20% and +20% differ for each of the four.
C19_Witness ==
    /\ Returned("_calculate_sensitivity_analysis") /\ ret.status = "ok"
    /\ \A p \in DOMAIN ret.value : ret.value[p]["-20%"] # ret.value[p]["+20%"]
    /\ loc.economic_params = args.economic_params

---------------------------------------------------------------------------
(* Claims about invocations running at the same time *)

\* what an invocation returns or raises when it runs alone
AloneResult(call_name, a) ==
    IF call_name = "calculate_complete_economic_analysis"
    THEN CalculateCompleteEconomicAnalysis(a).ret
    ELSE IF call_name = "calculate_optimal_bess"
    THEN CalculateOptimalBess(a.pv_production, a.consumption_profile, a.bess_params)
    ELSE CalculateBaselineScenario(a.pv_production, a.consumption_profile.monthly_kwh,
                                   a.electricity_price, a.feed_in_tariff)

\* C20: the engines keep no state across calls: in every interleaving of
\* evaluate and sizing invocations each finished invocation has the result
\* it has when run alone, and invocations on the same inputs have the same
\* result.
C20_InvocationsAreIndependent ==
    /\ \A t \in Threads :
          pc[t] = "done" => ret[t] = AloneResult(call[t], args[t])
    /\ \A t, u \in Threads :
          (pc[t] = "done" /\ pc[u] = "done" /\ call[t] = call[u] /\ args[t] = args[u])
          => ret[t] = ret[u]

\* C20 witness: an evaluation has run from start to end, and returned an
\* EconomicResults, while another evaluation on other inputs was between
\* its scenarios and its results.
C20_Witness ==
    \E t, u \in Threads :
        /\ call[t] = "calculate_complete_economic_analysis" /\ call[u] = call[t]
        /\ args[t] # args[u]
        /\ pc[u] = "scenarios"
        /\ pc[t] = "done" /\ ret[t].status = "ok"
        /\ ret[t] = AloneResult(call[t], args[t])

---------------------------------------------------------------------------
(* Claims about the incremental economics of the BESS *)

\* C21: in every evaluation that returns, with the BESS scenario computed
\* or in the fallback, the incremental cash flow of each year is the PV+BESS
\* cash flow of the year minus the PV-only one, and bess_incremental_npv =
\* pv_bess_npv - pv_only_npv.
C21_IncrementalIsDifference ==
    (Returned("calculate_complete_economic_analysis") /\ ret.status = "ok")
    => /\ ret.bess_incremental_npv = ret.pv_bess_npv - ret.pv_only_npv
       /\ \A y \in 1..Len(ret.annual_cash_flows_pv) :
              IncrementalCashFlows(loc.pv_only_results, loc.pv_bess_results)[y]
                  = ret.annual_cash_flows_pv_bess[y] - ret.annual_cash_flows_pv[y]

\* an evaluation with a BESS whose incremental cash flows and NPV are not 0
C21_Witness ==
    /\ Returned("calculate_complete_economic_analysis") /\ ret.status = "ok"
    /\ Truthy(args.bess_capacity_kwh) /\ Truthy(args.bess_self_consumption_increase)
    /\ ret.bess_incremental_npv # 0
    /\ ret.pv_only_npv # 0
    /\ ret.annual_cash_flows_pv_bess # ret.annual_cash_flows_pv

---------------------------------------------------------------------------
(* Claims about the battery dispatch simulation *)

\* valid input of the dispatch: 12 non-negative productions and
\* consumptions, a capacity >= 0 and an efficiency in (0, 1]
IsValidDispatchInput(a) ==
    /\ IsValidVector(a.pv_production)
    /\ IsValidVector(a.consumption_profile.monthly_kwh)
    /\ a.bess_capacity >= 0
    /\ a.bess_params.efficiency \in 1..100

\* C22: _calculate_bess_scenario returns a result for every valid input, in
\* particular when January is a surplus month.
C22_DispatchReturns ==
    (Returned("_calculate_bess_scenario") /\ IsValidDispatchInput(args))
    => ret.status = "ok"

\* C23: in the dispatch simulation energy is conserved: the annual
\* self-consumption never exceeds the annual production and, in every
\* month, self_consumption + grid_export = production and self_consumption
\* + grid_import = consumption.  The results are in fine units.
C23_DispatchConservesEnergy ==
    (/\ Returned("_calculate_bess_scenario") /\ ret.status = "ok"
     /\ IsValidDispatchInput(args))
    => /\ ret.annual_self_consumption <= SumSeq(args.pv_production) * DailyScale
       /\ \A i \in 1..12 :
              /\ ret.monthly_results[i].self_consumption
                    + ret.monthly_results[i].grid_export
                        = args.pv_production[i] * DailyScale
              /\ ret.monthly_results[i].self_consumption
                    + ret.monthly_results[i].grid_import
                        = args.consumption_profile.monthly_kwh[i] * DailyScale

---------------------------------------------------------------------------
(* Claims about the PV+BESS scenario of the economic engine *)

\* C24: in the PV+BESS scenario, for every supplied
\* bess_self_consumption_increase > 0, the annual self-consumption used for
\* the savings exceeds neither the annual production nor the annual
\* consumption, so self_consumption + grid_export = production and
\* self_consumption + grid_import = consumption.
C24_BessScenarioWithinLimits ==
    (/\ Returned("calculate_complete_economic_analysis") /\ ret.status = "ok"
     /\ IsValidEvaluateInput(args)
     /\ Truthy(args.bess_capacity_kwh) /\ Truthy(args.bess_self_consumption_increase)
     /\ args.bess_self_consumption_increase[1] > 0)
    => LET r == loc.pv_bess_results
           consumption == SumSeq(args.consumption_monthly)
       IN  /\ r.annual_self_consumption <= args.pv_production_annual
           /\ r.annual_self_consumption <= consumption
           /\ r.annual_self_consumption + r.annual_grid_export
                 = args.pv_production_annual
           /\ r.annual_self_consumption + r.annual_grid_import = consumption

---------------------------------------------------------------------------
(* Claims about the result of the capacity grid search *)

\* C25: for every input with capex_per_kwh >= 0 and opex_annual_percent >=
\* 0, _optimize_bess_capacity returns the minimum candidate, 10% of the
\* average monthly consumption, whatever the production profile, the
\* prices and the battery's DoD and efficiency are.
C25_SearchReturnsMinimum ==
    (/\ Returned("_optimize_bess_capacity")
     /\ args.bess_params.capex_per_kwh >= 0
     /\ args.bess_params.opex_annual_percent >= 0)
    => /\ ret.status = "ok"
       /\ ret.optimal_capacity
             = OptimizeLocals(args.consumption_profile).min_capacity

---------------------------------------------------------------------------
(* Claims about the workflow of the projects *)

\* the transition table as the claims state it: the manual transitions, and
\* the automatic step of each status with its condition
ManualTransitions ==
    {<<"completato", "archiviato">>, <<"archiviato", "completato">>,
     <<"in_revisione", "in_analisi">>, <<"in_analisi", "da_analizzare">>}

AutomaticTransitions ==
    {<<"bozza", "da_analizzare">>, <<"da_analizzare", "in_analisi">>,
     <<"in_analisi", "in_revisione">>, <<"in_revisione", "completato">>}

AutomaticConditionHolds(project) ==
    CASE project.status = "bozza"         -> HasBasicData(project)
      [] project.status = "da_analizzare" -> HasGeometryData(project)
      [] project.status = "in_analisi"    -> HasPvgisData(project)
      [] project.status = "in_revisione"  -> HasEconomicAnalysis(project)
      [] OTHER                            -> FALSE

\* the position of a status in the workflow
Rank(status) == CHOOSE i \in 1..Len(ProjectStatus) : ProjectStatus[i] = status

IsStatusChange == call \in {"update_project_status", "workflow.update_project_status"}

\* C26: can_transition_to grants a manual transition only to the role
\* admin, grants an automatic transition exactly when its condition holds
\* for the project, and denies every pair that is not in the transition
\* table for every role; no status change made by a non-admin user moves a
\* project backward or into archiviato.
C26_ManualTransitionsNeedAdmin ==
    /\ (/\ call = "can_transition_to" /\ pc = "done"
        /\ args.project.status \in ProjectStatusValues
        /\ args.target_status \in ProjectStatusValues)
       => LET pair == <<args.project.status, args.target_status>>
          IN  /\ ret.status = "ok"
              /\ ret.value =
                    (IF pair \in ManualTransitions THEN args.user_role = "admin"
                     ELSE IF pair \in AutomaticTransitions
                     THEN AutomaticConditionHolds(args.project)
                     ELSE FALSE)
    /\ (IsStatusChange /\ args.user_role # "admin")
       => \/ loc.project.status = args.project.status
          \/ /\ Rank(loc.project.status) > Rank(args.project.status)
             /\ loc.project.status # "archiviato"

\* a user who is not an admin asks to archive a completed project and is
\* refused, the project left as it was
C26_Witness ==
    /\ call = "workflow.update_project_status" /\ pc = "done"
    /\ args.user_role = "user"
    /\ args.project.status = "completato" /\ args.new_status = "archiviato"
    /\ ret.code = 400
    /\ loc.project = args.project

\* C27: for every project and role, the statuses get_available_transitions
\* returns are the target statuses for which can_transition_to returns
\* True; no admin-only manual transition is listed for a non-admin user.
C27_AvailableAreGranted ==
    (/\ call = "get_available_transitions" /\ pc = "done"
     /\ args.project.status \in ProjectStatusValues)
    => /\ ret.status = "ok"
       /\ {ret.value[i] : i \in 1..Len(ret.value)}
             = {target \in ProjectStatusValues :
                   CanTransitionTo(args.project, target, args.user_role).value}

\* C28: update_project_status changes the status only along the automatic
\* transition of the current status when its condition holds, one step per
\* call; when no such transition applies, in completato and archiviato
\* always, it returns False and leaves the project (status, notes and
\* last_updated) unchanged.
C28_AutoUpdateMovesOneStep ==
    (/\ call = "update_project_status" /\ pc = "done"
     /\ args.project.status \in ProjectStatusValues)
    => /\ ret.status = "ok"
       /\ IF AutomaticConditionHolds(args.project)
          THEN /\ ret.value = TRUE
               /\ <<args.project.status, loc.project.status>> \in AutomaticTransitions
               /\ Rank(loc.project.status) = Rank(args.project.status) + 1
          ELSE /\ ret.value = FALSE
               /\ loc.project.status = args.project.status
               /\ loc.project.notes = args.project.notes
               /\ loc.project.last_updated = args.project.last_updated

\* one call has moved a project one step, and another call on a completed
\* project with all its data has changed nothing
C28_Witness ==
    /\ call = "update_project_status" /\ pc = "done"
    /\ args.project.status = "completato" /\ HasEconomicAnalysis(args.project)
    /\ ret.value = FALSE
    /\ loc.project.notes # None
    /\ loc.project = args.project

\* C29: every status a project holds, from the default of the Project model
\* on and after any sequence of workflow operations, is one of the six
\* values of ProjectStatus, and get_next_status, can_transition_to,
\* get_workflow_progress and get_available_transitions do not fail on it.
C29_StoredStatusIsProjectStatus ==
    /\ loc.project.status \in ProjectStatusValues
    /\ (/\ call \in {"get_next_status", "get_workflow_progress",
                      "get_available_transitions"}
        /\ pc = "done")
       => ret.status = "ok"
    /\ (/\ call = "can_transition_to" /\ pc = "done"
        /\ args.target_status \in ProjectStatusValues)
       => ret.status = "ok"

---------------------------------------------------------------------------
(* Claims about the layout calculator *)

\* C30: calculate_optimal_layout returns as layout_ottimale the layout with
\* the greater installable power, the south layout on a tie, and reports
\* its orientation in the comparison, for every input, a surface too small
\* for the margins (both layouts with 0 kWp and 0 modules) included: it
\* does not raise in that case.
C30_OptimalLayoutIsTheStronger ==
    (Returned("calculate_optimal_layout") /\ args.superficie_mq > 0)
    => LET module == IF args.modulo_params = None THEN DefaultModule
                     ELSE args.modulo_params[1]
           sud == CalculateSouthLayout(args.superficie_mq, args.tilt_degrees,
                                       args.margine_metri, module)
           est_ovest == CalculateEastWestLayout(args.superficie_mq, args.tilt_degrees,
                                                args.margine_metri, module)
       IN  /\ ret.status = "ok"
           /\ ret.layout_ottimale =
                 (IF est_ovest.potenza_installabile_kwp > sud.potenza_installabile_kwp
                  THEN est_ovest ELSE sud)
           /\ ret.layout_ottimale.potenza_installabile_kwp
                 >= ret.layout_alternativo.potenza_installabile_kwp
           /\ "orientamento" \in DOMAIN ret.layout_ottimale
              => ret.confronto.migliore = ret.layout_ottimale.orientamento

=============================================================================
